---- MODULE Spec2Model ----
(***************************************************************************)
(* Training executor of zensols.deeplearn (ModelExecutor) together with    *)
(* the update-file protocol it polls at every epoch boundary, and the      *)
(* LifeCycleManager that implements the same protocol as a class.          *)
(*                                                                         *)
(* The update file is shared with other agents: a writer that puts a       *)
(* record in it and callers of stop().  The executor runs train() as a     *)
(* sequence of steps (one per batch, one per epoch decision, two per       *)
(* poll: read, then unlink and epoch update) between which the other       *)
(* agents may act.                                                         *)
(*                                                                         *)
(* Floating point losses are modelled as integers: finite values are       *)
(* multiples of Scale so that the average over at most MaxBatches batches  *)
(* is exact, and Inf stands for +infinity (larger than every finite sum,   *)
(* absorbing under addition and division).                                 *)
(***************************************************************************)
EXTENDS Integers, Sequences, FiniteSets, TLC

\* ---------------------------------------------------------------- bounds
MaxEpochs == 2
MaxBatches == 2
MaxWrites == 1
MaxRuns == 1

\* sys.maxsize, the epoch value that ends the loop on a stop.  It is only
\* compared, never computed with; the value here is the largest integer of
\* the model checker and, like the real one, exceeds every epoch cap.
SysMaxSize == 2147483647

RECURSIVE Fact(_)
Fact(n) == IF n <= 1 THEN 1 ELSE n * Fact(n - 1)

\* unit of the finite loss values
Scale == Fact(MaxBatches)

\* finite values of loss.item() * batch.size(), in units of Scale
FiniteLosses == {1, 2}

\* np.Inf: greater than every finite loss sum
Inf == Scale * (MaxBatches + 1) * 2 + 1

\* loss.item() * batch.size() of one step
LossContribs == {Scale * l : l \in FiniteLosses} \cup {Inf}

\* float addition, with +infinity absorbing
AddF(a, b) == IF a >= Inf \/ b >= Inf THEN Inf ELSE a + b

\* float division by a positive count
DivF(a, n) == IF a >= Inf THEN Inf ELSE a \div n

RECURSIVE SumF(_)
SumF(s) == IF s = <<>> THEN 0 ELSE AddF(Head(s), SumF(Tail(s)))

\* ------------------------------------------------------- update file
\* Content of the update file.  kind:
\*   absent     no file
\*   empty      zero bytes (what touch() creates)
\*   malformed  text json.load rejects
\*   obj        a JSON object without the key epoch
\*   epochInt   {"epoch": v}
\*   epochFloat {"epoch": v.5}
\*   epochStr   {"epoch": "v"}
\*   epochBad   {"epoch": null} or {"epoch": "abc"}
\* byStop and stale are history fields: the file was created by stop() and
\* not rewritten since; the file was on disk when train() was entered.
FileRec(k, v, bs, st) == [kind |-> k, v |-> v, byStop |-> bs, stale |-> st]

Absent == FileRec("absent", 0, FALSE, FALSE)

EpochValues == (-1)..MaxEpochs

WriterContents ==
    {FileRec(k, 0, FALSE, FALSE) :
        k \in {"empty", "malformed", "obj", "epochBad"}}
    \cup {FileRec("epochInt", v, FALSE, FALSE) : v \in EpochValues}
    \cup {FileRec("epochFloat", v, FALSE, FALSE) : v \in {1}}
    \cup {FileRec("epochStr", v, FALSE, FALSE) : v \in {2}}

Exists(f) == f.kind # "absent"

\* json.load(f), 'epoch' in data, int(data['epoch']) of the poll: whether
\* the try block raised, whether an epoch was found, and its value
ParseRaises(f) == f.kind \in {"empty", "malformed", "epochBad"}

ParseHasEpoch(f) == f.kind \in {"epochInt", "epochFloat", "epochStr"}

ParseEpoch(f) == f.v

\* _parse_early_stop without epoch_val = sys.maxsize in the except clause
ParseEarlyStop_NoStop(hasPath, f) ==
    IF ~hasPath \/ ~Exists(f) \/ ParseRaises(f) THEN -1
    ELSE IF ParseHasEpoch(f) THEN ParseEpoch(f)
    ELSE -1

\* ModelExecutor._parse_early_stop: the value returned
ParseEarlyStop(hasPath, f) ==
    IF ~hasPath \/ ~Exists(f) THEN -1
    ELSE IF ParseRaises(f) THEN SysMaxSize
    ELSE IF ParseHasEpoch(f) THEN ParseEpoch(f)
    ELSE -1

\* the epoch update taking every value from 0 on from the poll
NextEpoch_FromZero(epoch, epoch_val) ==
    IF epoch_val >= 0 THEN epoch_val ELSE epoch + 1

\* the epoch update taking only values below sys.maxsize from the poll
NextEpoch_IgnoreMax(epoch, epoch_val) ==
    IF epoch_val > 0 /\ epoch_val < SysMaxSize THEN epoch_val ELSE epoch + 1

\* the epoch update skipping an epoch when there is no update
NextEpoch_Skip(epoch, epoch_val) ==
    IF epoch_val > 0 THEN epoch_val ELSE epoch + 2

\* the epoch update of _train after the poll
NextEpoch(epoch, epoch_val) ==
    IF epoch_val > 0 THEN epoch_val ELSE epoch + 1

\* LifeCycleManager._read_status: LifeCycleStatus(action, epoch); epoch is
\* None (hasEpoch false) unless the record gave one
LcReadStatus(hasPath, f) ==
    IF ~hasPath \/ ~Exists(f)
    THEN [action |-> "ITERATE_EPOCH", hasEpoch |-> FALSE, epoch |-> 0]
    ELSE IF ParseRaises(f)
    THEN [action |-> "STOP", hasEpoch |-> FALSE, epoch |-> 0]
    ELSE IF ParseHasEpoch(f)
    THEN [action |-> "SET_EPOCH", hasEpoch |-> TRUE, epoch |-> ParseEpoch(f)]
    ELSE [action |-> "ITERATE_EPOCH", hasEpoch |-> FALSE, epoch |-> 0]

\* LifeCycleManager.get_status: the status returned and current_epoch after
LcGetStatus(cur, st) ==
    IF st.action = "STOP"
    THEN [status |-> [st EXCEPT !.hasEpoch = TRUE, !.epoch = SysMaxSize],
          current_epoch |-> cur]
    ELSE IF st.action = "SET_EPOCH"
    THEN [status |-> st, current_epoch |-> st.epoch]
    ELSE [status |-> [st EXCEPT !.hasEpoch = TRUE, !.epoch = cur + 1],
          current_epoch |-> cur + 1]

\* ------------------------------------------------------------- state
VARIABLES
    pc,             \* position of train() in the executor
    hasPath,        \* update_path is not None
    debug,          \* ModelExecutor.debug
    nEpochs,        \* model_settings.epochs
    nTrain,         \* number of training batches
    nValid,         \* number of validation batches
    file,           \* the update file
    epoch,          \* _train: epoch
    batchIdx,       \* _train: batches of the current loop already stepped
    epochVal,       \* _train: epoch_val, result of the poll
    validLossMin,   \* _train: valid_loss_min
    trainRes,       \* model_result.train.results
    validRes,       \* model_result.validation.results
    hasResult,      \* model_result is not None
    modelExists,    \* _model is not None
    cosExists,      \* criterion/optimizer/scheduler triple is set
    weights,        \* state of the model parameters (optimizer steps taken)
    checkpoint,     \* what model_manager._save_executor last wrote
    finalSaved,     \* _save_final_trained_results ran in this train()
    runs,           \* ModelResult run counter
    lcCurrentEpoch, \* LifeCycleManager.current_epoch
    lcStatus,       \* last LifeCycleStatus returned by get_status
    \* history
    outcome,        \* how the last train() ended: none, completed, bailed
    forwards,       \* forward passes of this train()
    writes,         \* records written by the writer so far
    polled,         \* file content seen by the last poll
    epochAtPoll,    \* epoch when the last poll started
    pollNo,         \* polls made by this train()
    ckptWrites,     \* checkpoint writes of this train()
    stopRet,        \* value returned by the last stop()
    stopSeen,       \* a file created by stop() was read by a poll
    cleaned,        \* the cleanup of this train() removed a file
    sawFile,        \* some poll of this train() found a file
    nullOut         \* the module returned a null output in this train()

\* the phase driver (_execute) and its batches
VARIABLES
    batchIteration, \* model_settings.batch_iteration
    cacheBatches,   \* model_settings.cache_batches
    batchLimit,     \* model_settings.batch_limit
    cachedBatches,  \* ModelExecutor.cached_batches
    xpc,            \* position of _execute
    setsName,       \* _execute: sets_name
    dsDst,          \* _execute: ds_dst
    toDeallocate,   \* _execute: to_deallocate
    prepIdx,        \* _prepare_datasets: split being prepared
    runList,        \* func: list being iterated
    runPos,         \* func: position in that list
    pending,        \* how func ended, while the finally clause runs
    devMem,         \* batches that hold device memory
    \* history
    phases,         \* phases entered so far
    changes,        \* changes of the settings so far
    exitKind,       \* how the last phase ended
    usedCache,      \* the phase found its lists in cached_batches
    drawn,          \* batches the phase drew from the split provider
    relocated,      \* batches the phase copied to the device
    acquiredNow,    \* batches the phase acquired device memory for
    releasedNow,    \* batches the phase released
    cacheAtEnter,   \* cached_batches when the phase was entered
    deallocated     \* deallocate_batches ran since the last phase ended,
                    \* and the batches it released

batchVars == <<batchIteration, cacheBatches, batchLimit, cachedBatches, xpc,
               setsName, dsDst, toDeallocate, prepIdx, runList, runPos,
               pending, devMem, phases, changes, exitKind, usedCache, drawn,
               relocated, acquiredNow, releasedNow, cacheAtEnter,
               deallocated>>

\* the result containers
VARIABLES
    dsResults,      \* DatasetResult.results, a list of EpochResults
    vloss,          \* _train: vloss, accumulated over the validation steps
    lastRead,       \* outcome of the last read of a derived property
    updFailed       \* EpochResult.update raised part-way

resVars == <<dsResults, vloss, lastRead, updFailed>>

VARIABLES
    hasScheduler,   \* criterion_optimizer_scheduler: scheduler is not None
    nTest,          \* number of test batches
    saveText,       \* ModelResultManager.save_text
    numRuns,        \* result/domain.py: the global _runs
    modelResult,    \* ModelExecutor.model_result
    hasModel,       \* ModelExecutor._model is not None
    hasCos,         \* _criterion_optimizer_scheduler holds its triple
    store,          \* the files in the directory of the result manager
    ckpt,           \* writes of the model manager to the checkpoint
    mpc,            \* position of train() or test()
    mEpoch,         \* _train: epoch
    mBatch,         \* batches of the current loop already stepped
    mVloss,         \* _train: vloss
    mLossMin,       \* _train: valid_loss_min
    \* history
    calls,          \* calls of train() and test()
    dumps,          \* calls of ModelResultManager.dump
    lastOps,        \* what the last step did, in order
    trace,          \* what the current epoch did, in order
    schedArg,       \* what scheduler.step was last called with
    lastTest,       \* outcome of the last read of last_test_dataset_result
    atCall,         \* the last call on the executor and how it ended
    built           \* the ModelResult constructed last, and reset_runs since

modVars == <<hasScheduler, nTest, saveText, numRuns, modelResult, hasModel,
             hasCos, store, ckpt, mpc, mEpoch, mBatch, mVloss, mLossMin,
             calls, dumps, lastOps, trace, schedArg, lastTest, atCall,
             built>>

mainVars == <<pc, hasPath, debug, nEpochs, nTrain, nValid, file, epoch,
              batchIdx, epochVal, validLossMin, trainRes, validRes, hasResult,
              modelExists, cosExists, weights, checkpoint, finalSaved, runs,
              lcCurrentEpoch, lcStatus, outcome, forwards, writes, polled,
              epochAtPoll, pollNo, ckptWrites, stopRet, stopSeen, cleaned,
              sawFile, nullOut>>

\* the order of the batches in a phase
VARIABLES
    shuffleTraining, \* model_settings.shuffle_training
    opc,             \* where the phase is: idle, prepare, run, done
    oName,           \* sets_name of the phase
    oLists,          \* ds_dst: per split, the batches in the order iterated
    oList,           \* the split the phase function iterates
    oPos,            \* the position in it
    processed,       \* per split, the batches stepped on, in order
    oExit            \* how the phase ended

ordVars == <<shuffleTraining, opc, oName, oLists, oList, oPos, processed,
             oExit>>

\* the values a DatasetResult keeps of its derived properties
VARIABLES
    memo,           \* per property: whether a value is kept, and the value
    mRead           \* the last read of a property of the DatasetResult:
                    \* what it returned and what get_* computes then

memoVars == <<memo, mRead>>

vars == <<mainVars, batchVars, resVars, modVars, ordVars, memoVars>>

execVars == <<pc, epoch, batchIdx, epochVal, validLossMin, trainRes, validRes,
              hasResult, modelExists, cosExists, weights, checkpoint,
              finalSaved, runs, lcCurrentEpoch, lcStatus, outcome, forwards,
              polled, epochAtPoll, pollNo, ckptWrites, stopSeen,
              cleaned, sawFile, nullOut>>

confVars == <<hasPath, debug, nEpochs, nTrain, nValid>>

NoCheckpoint == [exists |-> FALSE, weights |-> 0, run |-> 0, iter |-> 0]

NoStopSeen == [seen |-> FALSE, len |-> 0, epoch |-> 0]

LcNoStatus == [action |-> "ITERATE_EPOCH", hasEpoch |-> FALSE, epoch |-> 0]

\* names under which _execute is called, and the splits of each
SetsNames == {"train", "test"}

SplitsOf(name) == IF name = "train" THEN <<"train", "valid">> ELSE <<"test">>

\* ds_dst is None; otherwise kind is lists (a list of batches per split)
\* or src (the splits of the provider themselves, as buffered passes them)
NoLists == [kind |-> "none", lists |-> <<>>]

\* cached_batches = {}
NoCachedBatches == [n \in SetsNames |-> NoLists]

NotDeallocated == [ran |-> FALSE, batches |-> {}]

\* no phase has run: nothing cached, nothing on the device
PhaseStart ==
    /\ cachedBatches = NoCachedBatches
    /\ xpc = "idle"
    /\ setsName = "train"
    /\ dsDst = NoLists
    /\ toDeallocate = <<>>
    /\ prepIdx = 0
    /\ runList = 0
    /\ runPos = 0
    /\ pending = "none"
    /\ devMem = {}
    /\ phases = 0
    /\ changes = 0
    /\ exitKind = "none"
    /\ usedCache = FALSE
    /\ drawn = 0
    /\ relocated = 0
    /\ acquiredNow = {}
    /\ releasedNow = {}
    /\ cacheAtEnter = NoCachedBatches
    /\ deallocated = NotDeallocated

\* the settings of the phase driver while the training loop is looked at
PhaseFixed ==
    /\ batchIteration = "gpu"
    /\ cacheBatches = FALSE
    /\ batchLimit = 1
    /\ PhaseStart

\* an empty DatasetResult
ResultStart ==
    /\ dsResults = <<>>
    /\ vloss = [n |-> 0, d |-> 1, done |-> FALSE]
    /\ lastRead = [prop |-> "none", on |-> "none", empty |-> TRUE,
                   kind |-> "none"]
    /\ updFailed = FALSE

\* DatasetResult(): no results, no start_time and no end_time; starts and
\* ends hold, for every call of start() and end() on it, the number of
\* EpochResults it had at the call
NewDatasetResult ==
    [results |-> <<>>, start_time |-> "none", end_time |-> "none",
     starts |-> <<>>, ends |-> <<>>]

\* model_result = None
NoModelResult ==
    [none |-> TRUE, index |-> 0, train |-> NewDatasetResult,
     validation |-> NewDatasetResult, test |-> NewDatasetResult]

\* no call on the executor is running
NoCall == [kind |-> "none", done |-> "none"]

\* scheduler.step was not called
NoSchedArg == [epoch |-> 0, value |-> 0, set |-> FALSE]

\* no batch was stepped on
NoneProcessed == [sp \in {"train", "valid", "test"} |-> <<>>]

\* the order of the batches while another part is looked at
OrderFixed ==
    /\ shuffleTraining = FALSE
    /\ opc = "idle"
    /\ oName = "train"
    /\ oLists = <<>>
    /\ oList = 0
    /\ oPos = 0
    /\ processed = NoneProcessed
    /\ oExit = "none"

\* what reading a property gives: a value, or the exception raised
Value(v) == [kind |-> "value", val |-> v]

Raised(x) == [kind |-> x, val |-> 0]

\* the properties of ResultsContainer under @persisted that the model reads
MemoProps == {"ids", "outcomes", "loss", "losses", "convergence"}

\* no value is kept: the state of a new container and after _data_updated
NoMemo == [p \in MemoProps |-> [set |-> FALSE, res |-> Raised("none")]]

\* no property was read
NoRead == [prop |-> "none", res |-> Raised("none"),
           computed |-> Raised("none")]

\* the kept values while another part is looked at
MemoFixed ==
    /\ memo = NoMemo
    /\ mRead = NoRead

\* no ModelResult was constructed in this process
NoneBuilt == [index |-> 0, reset |-> FALSE]

\* last_test_dataset_result was not read
NoLastTest == [name |-> "none", test |-> 0, validation |-> 0]

\* the executor, the run counter and the directory of the result manager
\* right after construction
ModelFresh ==
    /\ numRuns = 0
    /\ modelResult = NoModelResult
    /\ hasModel = FALSE
    /\ hasCos = FALSE
    /\ store = {}
    /\ ckpt = 0
    /\ mpc = "idle"
    /\ mEpoch = 0
    /\ mBatch = 0
    /\ mVloss = 0
    /\ mLossMin = Inf
    /\ calls = 0
    /\ dumps = 0
    /\ lastOps = <<>>
    /\ trace = <<>>
    /\ schedArg = NoSchedArg
    /\ lastTest = NoLastTest
    /\ atCall = NoCall
    /\ built = NoneBuilt

\* the executor while another part is looked at
ModelFixed ==
    /\ hasScheduler = FALSE
    /\ nTest = 1
    /\ saveText = TRUE
    /\ ModelFresh

\* the executor right after construction, but for its configuration
ExecStart ==
    /\ pc = "idle"
    /\ file = Absent
    /\ epoch = 0
    /\ batchIdx = 0
    /\ epochVal = -1
    /\ validLossMin = Inf
    /\ trainRes = <<>>
    /\ validRes = <<>>
    /\ hasResult = FALSE
    /\ modelExists = FALSE
    /\ cosExists = FALSE
    /\ weights = 0
    /\ checkpoint = NoCheckpoint
    /\ finalSaved = FALSE
    /\ runs = 0
    /\ lcCurrentEpoch = 0
    /\ lcStatus = LcNoStatus
    /\ outcome = "none"
    /\ forwards = 0
    /\ writes = 0
    /\ polled = Absent
    /\ epochAtPoll = 0
    /\ pollNo = 0
    /\ ckptWrites = 0
    /\ stopRet = FALSE
    /\ stopSeen = NoStopSeen
    /\ cleaned = FALSE
    /\ sawFile = FALSE
    /\ nullOut = FALSE

\* the configuration of the executor while the phase driver or the result
\* containers are looked at
ExecFixed ==
    /\ hasPath = FALSE
    /\ debug = FALSE
    /\ nEpochs = 0
    /\ nTrain = 1
    /\ nValid = 1
    /\ ExecStart

Init ==
    /\ hasPath \in BOOLEAN
    /\ debug \in BOOLEAN
    /\ nEpochs \in 0..MaxEpochs
    /\ nTrain \in 1..MaxBatches
    /\ nValid \in 1..MaxBatches
    /\ ExecStart
    /\ PhaseFixed
    /\ ResultStart
    /\ ModelFixed
    /\ OrderFixed
    /\ MemoFixed

\* ---------------------------------------------------------- operations
\* EpochResult.ave_loss: sum of the loss contributions over their number
AveLoss(er) == DivF(SumF(er.losses), Len(er.losses))

\* ModelExecutor.reset / _deallocate_model: what is left of the model and
\* of the criterion/optimizer/scheduler triple
\* reset() that clears the optimizer triple but keeps the model
ResetModelExists_Keep == TRUE

ResetModelExists == FALSE

\* reset() that deallocates the model but keeps the optimizer triple
ResetCosExists_Keep == TRUE

ResetCosExists == FALSE

\* ModelExecutor.stop: the file after the call and the value returned
StopFile(path, f) ==
    IF path /\ ~Exists(f) THEN FileRec("empty", 0, TRUE, FALSE) ELSE f

\* stop() returning True whenever a path is configured
StopReturn_Always(path, f) == path

StopReturn(path, f) == path /\ ~Exists(f)

\* LifeCycleManager.stop
LcStopFile(path, f) ==
    IF path /\ ~Exists(f) THEN FileRec("empty", 0, TRUE, FALSE) ELSE f

LcStopReturn(path, f) == path /\ ~Exists(f)

\* _train without the cleanup
CleanupFile_Skip(path, f) == f

\* the stale-file cleanup at the start of _train
CleanupFile(path, f) == IF path /\ Exists(f) THEN Absent ELSE f

\* LifeCycleManager.reset: the file and current_epoch after; StaleCleanup
\* applies both this and the cleanup of _train, which agree on the file
LcResetFile(path, f) == IF path /\ Exists(f) THEN Absent ELSE f

LcResetEpoch == 0

\* train() up to the call of _train, and _train up to the progress bar: a
\* new ModelResult, valid_loss_min, the model and the optimizer triple
TrainEnter ==
    /\ pc = "idle"
    /\ runs < MaxRuns
    /\ pc' = "cleanup"
    /\ runs' = runs + 1
    /\ hasResult' = TRUE
    /\ trainRes' = <<>>
    /\ validRes' = <<>>
    /\ validLossMin' = Inf
    /\ modelExists' = TRUE
    /\ weights' = IF modelExists THEN weights ELSE 0
    /\ cosExists' = TRUE
    /\ file' = IF Exists(file) THEN [file EXCEPT !.stale = TRUE] ELSE file
    /\ outcome' = "none"
    /\ finalSaved' = FALSE
    /\ forwards' = 0
    /\ pollNo' = 0
    /\ ckptWrites' = 0
    /\ stopSeen' = NoStopSeen
    /\ cleaned' = FALSE
    /\ sawFile' = FALSE
    /\ nullOut' = FALSE
    /\ polled' = Absent
    /\ UNCHANGED <<batchVars, resVars, modVars, ordVars, memoVars>>
    /\ UNCHANGED <<confVars, epoch, batchIdx, epochVal, checkpoint,
                   lcCurrentEpoch, lcStatus, writes, epochAtPoll, stopRet>>

\* _train: clear any early stop state, start the train result, epoch = 0
StaleCleanup ==
    /\ pc = "cleanup"
    /\ file' = CleanupFile(hasPath, file)
    /\ cleaned' = (hasPath /\ Exists(file))
    /\ lcCurrentEpoch' = LcResetEpoch
    /\ epoch' = 0
    /\ pc' = "loop"
    /\ UNCHANGED <<batchVars, resVars, modVars, ordVars, memoVars>>
    /\ UNCHANGED <<confVars, batchIdx, epochVal, validLossMin, trainRes,
                   validRes, hasResult, modelExists, cosExists, weights,
                   checkpoint, finalSaved, runs, lcStatus, outcome, forwards,
                   writes, polled, epochAtPoll, pollNo, ckptWrites, stopRet, stopSeen, sawFile, nullOut>>

\* _train: the loop test and the two EpochResults appended at the top
LoopTest ==
    /\ pc = "loop"
    /\ IF epoch < nEpochs
       THEN /\ trainRes' = Append(trainRes, [index |-> epoch, n |-> 0])
            /\ validRes' = Append(validRes,
                  [index |-> epoch, losses |-> <<>>, weights |-> 0,
                   done |-> FALSE])
            /\ batchIdx' = 0
            /\ pc' = "train"
       ELSE /\ pc' = "finish"
            /\ UNCHANGED <<trainRes, validRes, batchIdx>>
    /\ UNCHANGED <<batchVars, resVars, modVars, ordVars, memoVars>>
    /\ UNCHANGED <<confVars, file, epoch, epochVal, validLossMin, hasResult,
                   modelExists, cosExists, weights, checkpoint, finalSaved,
                   runs, lcCurrentEpoch, lcStatus, outcome, forwards, writes,
                   polled, epochAtPoll, pollNo, ckptWrites,
                   stopRet, stopSeen, cleaned, sawFile, nullOut>>

\* what model(batch) returns: an output tensor or None
ModuleOutputs == {"tensor", "null"}

\* the step without the test of the output
IterBatchExit_NoCheck(out, dbg) == IF dbg THEN "bail" ELSE "return"

\* _iter_batch: how the step ends.  The null output is tested right after
\* the forward pass, the debug bail comes after the loss, the backward pass
\* and the decoding, and only then the result is recorded.
IterBatchExit(out, dbg) ==
    IF out = "null" THEN "contract"
    ELSE IF dbg THEN "bail" ELSE "return"

\* _execute: except EarlyBailException: reset() and return False
EarlyBail ==
    /\ modelExists' = ResetModelExists
    /\ cosExists' = ResetCosExists
    /\ outcome' = "bailed"
    /\ pc' = "idle"

\* _execute: any other exception of the step leaves through the finally
\* clause and train() raises it to the caller
StepRaised ==
    /\ outcome' = "failed"
    /\ pc' = "idle"
    /\ UNCHANGED <<modelExists, cosExists>>

\* _iter_batch on one training batch
TrainStep ==
    /\ pc = "train"
    /\ batchIdx < nTrain
    /\ \E out \in ModuleOutputs :
         LET exit == IterBatchExit(out, debug)
         IN /\ forwards' = forwards + 1
            /\ nullOut' = (nullOut \/ out = "null")
            /\ weights' = IF exit = "contract" THEN weights ELSE weights + 1
            /\ CASE exit = "contract" ->
                      /\ StepRaised
                      /\ UNCHANGED <<trainRes, batchIdx>>
                 [] exit = "bail" ->
                      /\ EarlyBail
                      /\ UNCHANGED <<trainRes, batchIdx>>
                 [] OTHER ->
                      /\ trainRes' =
                            [trainRes EXCEPT ![Len(trainRes)].n = @ + 1]
                      /\ batchIdx' =
                            IF batchIdx + 1 = nTrain THEN 0 ELSE batchIdx + 1
                      /\ pc' = IF batchIdx + 1 = nTrain
                               THEN "valid" ELSE "train"
                      /\ UNCHANGED <<modelExists, cosExists, outcome>>
    /\ UNCHANGED <<batchVars, resVars, modVars, ordVars, memoVars>>
    /\ UNCHANGED <<confVars, file, epoch, epochVal, validLossMin, validRes,
                   hasResult, checkpoint, finalSaved, runs, lcCurrentEpoch,
                   lcStatus, writes, polled, epochAtPoll, pollNo, ckptWrites,
                   stopRet, stopSeen, cleaned, sawFile>>

\* _iter_batch on one validation batch, under no_grad
ValidStep ==
    /\ pc = "valid"
    /\ batchIdx < nValid
    /\ \E out \in ModuleOutputs :
         LET exit == IterBatchExit(out, debug)
         IN /\ forwards' = forwards + 1
            /\ nullOut' = (nullOut \/ out = "null")
            /\ CASE exit = "contract" ->
                      /\ StepRaised
                      /\ UNCHANGED <<validRes, batchIdx>>
                 [] exit = "bail" ->
                      /\ EarlyBail
                      /\ UNCHANGED <<validRes, batchIdx>>
                 [] OTHER ->
                      /\ \E c \in LossContribs :
                            validRes' = [validRes EXCEPT
                                ![Len(validRes)].losses = Append(@, c)]
                      /\ batchIdx' =
                            IF batchIdx + 1 = nValid THEN 0 ELSE batchIdx + 1
                      /\ pc' = IF batchIdx + 1 = nValid
                               THEN "decide" ELSE "valid"
                      /\ UNCHANGED <<modelExists, cosExists, outcome>>
    /\ UNCHANGED <<batchVars, resVars, modVars, ordVars, memoVars>>
    /\ UNCHANGED <<confVars, file, epoch, epochVal, validLossMin, trainRes,
                   hasResult, weights, checkpoint, finalSaved, runs,
                   lcCurrentEpoch, lcStatus, writes, polled, epochAtPoll,
                   pollNo, ckptWrites, stopRet, stopSeen, cleaned, sawFile>>

\* the comparison taking an equal loss for a decrease
Decreased_OrEqual(valid_loss, valid_loss_min) == valid_loss <= valid_loss_min

\* decreased = valid_loss < valid_loss_min
Decreased(valid_loss, valid_loss_min) == valid_loss < valid_loss_min

\* the save without the update of valid_loss_min
NewMin_Keep(valid_loss, valid_loss_min) == valid_loss_min

\* valid_loss_min = valid_loss, after the model was saved
NewMin(valid_loss, valid_loss_min) == valid_loss

\* _train after the validation loop: save the model when the validation
\* loss has decreased
EpochDecide ==
    /\ pc = "decide"
    /\ LET valid_loss == AveLoss(validRes[Len(validRes)])
       IN /\ IF Decreased(valid_loss, validLossMin)
             THEN /\ checkpoint' = [exists |-> TRUE, weights |-> weights,
                                    run |-> runs, iter |-> Len(validRes)]
                  /\ validLossMin' = NewMin(valid_loss, validLossMin)
                  /\ ckptWrites' = ckptWrites + 1
             ELSE UNCHANGED <<checkpoint, validLossMin, ckptWrites>>
          /\ validRes' = [validRes EXCEPT
                 ![Len(validRes)].weights = weights,
                 ![Len(validRes)].done = TRUE]
    /\ pc' = "poll"
    /\ UNCHANGED <<batchVars, resVars, modVars, ordVars, memoVars>>
    /\ UNCHANGED <<confVars, file, epoch, batchIdx, epochVal, trainRes,
                   hasResult, modelExists, cosExists, weights, finalSaved,
                   runs, lcCurrentEpoch, lcStatus, outcome, forwards, writes,
                   polled, epochAtPoll, pollNo, stopRet,
                   stopSeen, cleaned, sawFile, nullOut>>

\* _parse_early_stop up to the unlink: the existence check and, when the
\* file is there, its read and parse.  Without a file the poll returns at
\* once and _train updates the epoch.  The LifeCycleManager is given the
\* same file by get_status.
PollRead ==
    /\ pc = "poll"
    /\ epochVal' = ParseEarlyStop(hasPath, file)
    /\ LET r == LcGetStatus(lcCurrentEpoch, LcReadStatus(hasPath, file))
       IN /\ lcStatus' = r.status
          /\ lcCurrentEpoch' = r.current_epoch
    /\ polled' = IF hasPath THEN file ELSE Absent
    /\ epochAtPoll' = epoch
    /\ pollNo' = pollNo + 1
    /\ sawFile' = (sawFile \/ (hasPath /\ Exists(file)))
    /\ stopSeen' = IF hasPath /\ Exists(file) /\ file.byStop
                   THEN [seen |-> TRUE, len |-> Len(trainRes),
                         epoch |-> epoch]
                   ELSE stopSeen
    /\ IF hasPath /\ Exists(file)
       THEN /\ pc' = "unlink"
            /\ UNCHANGED epoch
       ELSE /\ pc' = "loop"
            /\ epoch' = NextEpoch(epoch, ParseEarlyStop(hasPath, file))
    /\ UNCHANGED <<batchVars, resVars, modVars, ordVars, memoVars>>
    /\ UNCHANGED <<confVars, file, batchIdx, validLossMin, trainRes,
                   validRes, hasResult, modelExists, cosExists, weights,
                   checkpoint, finalSaved, runs, outcome, forwards, writes,
                   ckptWrites, stopRet, cleaned, nullOut>>

\* a poll that leaves the file in place
UnlinkFile_Keep(seen, f) == f

\* the unlink moved into the try block, after the parse
UnlinkFile_InTry(seen, f) ==
    IF Exists(seen) /\ ~ParseRaises(seen) THEN Absent ELSE f

\* update_path.unlink() of the poll
UnlinkFile(seen, f) == IF Exists(seen) THEN Absent ELSE f

\* _parse_early_stop: the unlink; _train: the epoch update
PollFinish ==
    /\ pc = "unlink"
    /\ file' = UnlinkFile(polled, file)
    /\ epoch' = NextEpoch(epoch, epochVal)
    /\ pc' = "loop"
    /\ UNCHANGED <<batchVars, resVars, modVars, ordVars, memoVars>>
    /\ UNCHANGED <<confVars, batchIdx, epochVal, validLossMin, trainRes,
                   validRes, hasResult, modelExists, cosExists, weights,
                   checkpoint, finalSaved, runs, lcCurrentEpoch, lcStatus,
                   outcome, forwards, writes, polled, epochAtPoll, pollNo,
                   ckptWrites, stopRet, stopSeen, cleaned, sawFile, nullOut>>

\* the loop left without the final save
SaveFinalTrainedResults_Skip == FALSE

\* model_manager._save_final_trained_results(self) was called
SaveFinalTrainedResults == TRUE

\* _train after the loop: end the train result and save the final results;
\* _execute and train() return
TrainFinish ==
    /\ pc = "finish"
    /\ finalSaved' = SaveFinalTrainedResults
    /\ outcome' = "completed"
    /\ pc' = "idle"
    /\ UNCHANGED <<batchVars, resVars, modVars, ordVars, memoVars>>
    /\ UNCHANGED <<confVars, file, epoch, batchIdx, epochVal, validLossMin,
                   trainRes, validRes, hasResult, modelExists, cosExists,
                   weights, checkpoint, runs, lcCurrentEpoch, lcStatus,
                   forwards, writes, polled, epochAtPoll, pollNo, ckptWrites, stopRet, stopSeen, cleaned, sawFile, nullOut>>

\* another agent calls ModelExecutor.stop()
Stop ==
    /\ file' = StopFile(hasPath, file)
    /\ stopRet' = StopReturn(hasPath, file)
    /\ UNCHANGED <<batchVars, resVars, modVars, ordVars, memoVars>>
    /\ UNCHANGED <<confVars, execVars, writes>>

\* another agent calls LifeCycleManager.stop()
LcStop ==
    /\ file' = LcStopFile(hasPath, file)
    /\ stopRet' = LcStopReturn(hasPath, file)
    /\ UNCHANGED <<batchVars, resVars, modVars, ordVars, memoVars>>
    /\ UNCHANGED <<confVars, execVars, writes>>

\* a writer puts a record in the update file
WriteFile ==
    /\ hasPath
    /\ writes < MaxWrites
    /\ \E c \in WriterContents : file' = c
    /\ writes' = writes + 1
    /\ UNCHANGED <<batchVars, resVars, modVars, ordVars, memoVars>>
    /\ UNCHANGED <<confVars, execVars, stopRet>>

Next ==
    \/ TrainEnter
    \/ StaleCleanup
    \/ LoopTest
    \/ TrainStep
    \/ ValidStep
    \/ EpochDecide
    \/ PollRead
    \/ PollFinish
    \/ TrainFinish
    \/ Stop
    \/ LcStop
    \/ WriteFile

Spec == Init /\ [][Next]_vars

\* the steps of a train() call in progress; the executor is single-threaded
\* and synchronous, so a call that was entered keeps taking steps
TrainSteps ==
    \/ StaleCleanup
    \/ LoopTest
    \/ TrainStep
    \/ ValidStep
    \/ EpochDecide
    \/ PollRead
    \/ PollFinish
    \/ TrainFinish

FairSpec == Spec /\ WF_vars(TrainSteps)


\* ------------------------------------------------------------- claims
\* the poll of this train() has returned and the loop has not moved on
AfterPoll == pc = "loop" /\ pollNo > 0

\* reading the file raises in the try block of the poll
RaisingKinds == {"empty", "malformed", "epochBad"}

\* the record carries an epoch value that int() accepts
EpochKinds == {"epochInt", "epochFloat", "epochStr"}

\* C1 (as stated): at every poll that finds the update file, the action is
\* SET_EPOCH(E) exactly when the file is a well-formed record with an
\* integer epoch E, and for every other content the action is STOP and the
\* training loop exits at that boundary.
C1_Original ==
    (AfterPoll /\ Exists(polled)) =>
        IF polled.kind = "epochInt"
        THEN /\ lcStatus.action = "SET_EPOCH"
             /\ lcStatus.epoch = polled.v
        ELSE /\ lcStatus.action = "STOP"
             /\ epoch = SysMaxSize
             /\ epoch >= nEpochs

\* C1 (amended): at every poll that finds the update file, the action is
\* STOP exactly when reading the file raises (an empty or malformed file, or
\* an epoch value int() rejects), and then the epoch is
\* sys.maxsize and the training loop exits at that boundary; the action is
\* SET_EPOCH(int(v)) exactly when the record has an epoch value v that int()
\* accepts; it is ITERATE_EPOCH for a well-formed record without an epoch.
C1_PollAction ==
    (AfterPoll /\ Exists(polled)) =>
        /\ (polled.kind \in RaisingKinds) <=> (lcStatus.action = "STOP")
        /\ (polled.kind \in RaisingKinds) <=> (epochVal = SysMaxSize)
        /\ (polled.kind \in RaisingKinds) =>
              (epoch = SysMaxSize /\ epoch >= nEpochs)
        /\ (polled.kind \in EpochKinds) <=> (lcStatus.action = "SET_EPOCH")
        /\ (polled.kind \in EpochKinds) =>
              (lcStatus.epoch = polled.v /\ epochVal = polled.v)
        /\ (polled.kind = "obj") <=> (lcStatus.action = "ITERATE_EPOCH")
        /\ (polled.kind = "obj") =>
              (epochVal = -1 /\ epoch = epochAtPoll + 1)

\* C1 witness: a poll has read a record without an epoch and iterated
C1_Witness ==
    /\ AfterPoll
    /\ polled.kind = "obj"
    /\ lcStatus.action = "ITERATE_EPOCH"
    /\ epoch = 1
    /\ nEpochs = 2

\* C2: whenever a poll returns, the update file does not exist, whatever
\* it held before the poll and whatever action the poll produced.
C2_FileGoneAfterPoll ==
    [][(pc \in {"poll", "unlink"} /\ pc' = "loop") => ~Exists(file')]_vars

\* C2 witness: a poll that found a malformed file has returned
C2_Witness ==
    /\ AfterPoll
    /\ polled.kind = "malformed"
    /\ ~Exists(file)

C4_StopAtBoundary ==
    stopSeen.seen =>
        /\ pc \in {"unlink", "loop", "finish", "idle"}
        /\ Len(trainRes) = stopSeen.len
        /\ Len(validRes) = stopSeen.len
        /\ trainRes[Len(trainRes)].index = stopSeen.epoch
        /\ trainRes[Len(trainRes)].n = nTrain
        /\ Len(validRes[Len(validRes)].losses) = nValid
        /\ (pc \in {"loop", "finish", "idle"} => epoch = SysMaxSize)
        /\ (pc = "idle" => outcome = "completed")
        /\ (writes = 0 => stopSeen.len = stopSeen.epoch + 1)

\* C4 witness: the stop arrived in the first epoch of a run with two
\* batches per split and a cap of 2, and train() has returned
C4_Witness ==
    /\ stopSeen.seen
    /\ stopSeen.epoch = 0
    /\ nEpochs = 2
    /\ nTrain = 2
    /\ nValid = 2
    /\ pc = "idle"
    /\ Len(trainRes) = 1

\* C5: when a poll reads a record with integer epoch E, the epoch of the
\* loop becomes E, for every integer E.
C5_Original ==
    (AfterPoll /\ polled.kind = "epochInt") => epoch = polled.v

\* C6: the cleanup at the start of a training run removes any update file
\* already present before the first epoch begins, so that no poll of the
\* run observes a file that was there when train() was entered.
C6_NoStaleFile ==
    /\ (pc \notin {"idle", "cleanup"} => ~(Exists(file) /\ file.stale))
    /\ (pc = "cleanup" => ~Exists(LcResetFile(hasPath, file)))
    /\ (pc # "idle" => ~(Exists(polled) /\ polled.stale))

\* C6 witness: the cleanup removed a file and the first poll has returned
C6_Witness ==
    /\ cleaned
    /\ AfterPoll
    /\ pollNo = 1

\* the EpochResults of a DatasetResult have the indices 0, 1, 2, ... in order
InOrder(results) == \A i \in 1..Len(results) : results[i].index = i - 1

\* C7: in a training run (without debug, with a module that returns an
\* output in every step) whose polls never find an update file, the epochs
\* run are 0, 1, ..., in that order and each once, at most
\* n of them; when train() returns the train and the validation
\* DatasetResult each hold exactly the n EpochResults 0..n-1; and train()
\* does return.
C7_AllEpochsInOrder ==
    /\ []((~sawFile /\ ~debug /\ ~nullOut /\ hasResult) =>
            /\ InOrder(trainRes)
            /\ InOrder(validRes)
            /\ Len(trainRes) = Len(validRes)
            /\ Len(trainRes) <= nEpochs
            /\ (pc = "idle" =>
                  /\ outcome = "completed"
                  /\ Len(trainRes) = nEpochs
                  /\ \A i \in 1..nEpochs :
                        /\ trainRes[i].n = nTrain
                        /\ Len(validRes[i].losses) = nValid))
    /\ ((pc = "cleanup") ~> (pc = "idle"))

\* C7 witness: a run of two epochs returned without any poll finding a file
C7_Witness ==
    /\ pc = "idle"
    /\ outcome = "completed"
    /\ ~sawFile
    /\ nEpochs = 2
    /\ pollNo = 2
    /\ Len(trainRes) = 2

\* validation average loss of the i-th epoch run by this train()
EpochLoss(i) == AveLoss(validRes[i])

\* least element of a non-empty set of losses
MinOf(S) == CHOOSE m \in S : \A x \in S : m <= x

\* running minimum of the epochs before the i-th, +infinity at the start
RunMinBefore(i) == MinOf({Inf} \cup {EpochLoss(j) : j \in 1..(i - 1)})

Improved(i) == EpochLoss(i) < RunMinBefore(i)

\* the checkpoint on disk was written in the i-th epoch of this train()
CheckpointOf(i) ==
    /\ checkpoint.exists
    /\ checkpoint.run = runs
    /\ checkpoint.iter = i
    /\ checkpoint.weights = validRes[i].weights

\* C8: in every training epoch the checkpoint is written if and only if
\* the validation average loss of the epoch is strictly less than the
\* running minimum of the earlier epochs of the run (+infinity at first),
\* and the write has happened when the epoch's poll begins.
C8_CheckpointIffImproved ==
    hasResult =>
        /\ ckptWrites = Cardinality({i \in 1..Len(validRes) :
                                        validRes[i].done /\ Improved(i)})
        /\ (pc \in {"poll", "unlink"} =>
              /\ validRes[Len(validRes)].done
              /\ Improved(Len(validRes)) <=> CheckpointOf(Len(validRes)))
        /\ (pc \in {"train", "valid", "decide"} =>
              /\ ~validRes[Len(validRes)].done
              /\ ~(checkpoint.exists /\ checkpoint.run = runs
                      /\ checkpoint.iter = Len(validRes)))

\* C8 witness: the second epoch did not improve on the first and its poll
\* is about to begin with one checkpoint written
C8_Witness ==
    /\ pc = "poll"
    /\ Len(validRes) = 2
    /\ ckptWrites = 1
    /\ checkpoint.iter = 1
    /\ EpochLoss(2) >= EpochLoss(1)

\* the first of the epochs with the least validation loss
FirstArgMin ==
    CHOOSE i \in 1..Len(validRes) :
        /\ \A j \in 1..Len(validRes) : EpochLoss(i) <= EpochLoss(j)
        /\ \A j \in 1..(i - 1) : EpochLoss(j) > EpochLoss(i)

Completed == pc = "idle" /\ outcome = "completed"

\* C9 (as stated): after train() completes normally the last checkpoint
\* written holds the model state of the epoch with the minimum validation
\* loss of the run, the earliest on ties, for every sequence of validation
\* losses; no checkpoint exists only if no epoch ran.
C9_Original ==
    Completed =>
        /\ (Len(validRes) > 0 => CheckpointOf(FirstArgMin))
        /\ (~checkpoint.exists => Len(validRes) = 0)

\* C9 (amended): after train() completes normally, if some epoch of the run
\* had a validation loss below +infinity, the last checkpoint written holds
\* the model state of the epoch with the minimum validation loss, the
\* earliest on ties; the run wrote no checkpoint exactly when no epoch had
\* a validation loss below +infinity, in particular when no epoch ran.
C9_BestCheckpoint ==
    Completed =>
        LET below == {i \in 1..Len(validRes) : EpochLoss(i) < Inf}
        IN /\ (below # {} => CheckpointOf(FirstArgMin))
           /\ (below = {} <=> ckptWrites = 0)
           /\ (ckptWrites = 0 => ~(checkpoint.exists /\ checkpoint.run = runs))

\* C9 witness: the run ended with the checkpoint of its second epoch, the
\* only one that improved on the first
C9_Witness ==
    /\ Completed
    /\ Len(validRes) = 2
    /\ ckptWrites = 2
    /\ CheckpointOf(2)
    /\ EpochLoss(2) < EpochLoss(1)

\* no EpochResult of the ModelResult has received an update
NoUpdates ==
    /\ \A i \in 1..Len(trainRes) : trainRes[i].n = 0
    /\ \A i \in 1..Len(validRes) : validRes[i].losses = <<>>

\* C10 (as stated): with debug enabled and any epoch cap (and a module that
\* returns an output), train() performs
\* exactly one forward pass, nothing is appended to any EpochResult, no
\* checkpoint is written, the EarlyBail is caught, the executor is reset
\* and the ModelResult returned holds no results.
C10_Original ==
    (debug /\ ~nullOut /\ pc = "idle" /\ outcome # "none") =>
        /\ forwards = 1
        /\ outcome = "bailed"
        /\ NoUpdates
        /\ ckptWrites = 0
        /\ ~modelExists
        /\ ~cosExists

\* C10 (amended): the same, for every epoch cap of at least 1.
C10_DebugBail ==
    /\ (debug /\ ~nullOut /\ nEpochs >= 1 /\ pc = "idle" /\ outcome # "none") =>
          /\ forwards = 1
          /\ outcome = "bailed"
          /\ NoUpdates
          /\ ckptWrites = 0
          /\ ~modelExists
          /\ ~cosExists
    /\ (debug => forwards <= 1 /\ NoUpdates /\ ckptWrites = 0)

\* C10 witness: a debug run with a cap of 2 has bailed out of its first step
C10_Witness ==
    /\ debug
    /\ nEpochs = 2
    /\ pc = "idle"
    /\ outcome = "bailed"
    /\ forwards = 1
    /\ Len(trainRes) = 1

\* C11: train() persists the final trained results exactly when the
\* training loop is left through its loop test, which includes leaving it
\* after a STOP or after a SET_EPOCH at or beyond the cap; when the first
\* step bails out (or a step raises) nothing final is persisted, and the
\* train DatasetResult of the returned ModelResult is partial: it holds the
\* EpochResult of the epoch that was begun, without any batch.
C11_FinalResults ==
    /\ (pc = "idle" /\ outcome # "none") =>
          (finalSaved <=> outcome = "completed")
    /\ (pc # "idle" => ~finalSaved)
    /\ (pc = "idle" /\ outcome = "completed") => epoch >= nEpochs
    /\ (pc = "idle" /\ outcome = "bailed") =>
          /\ Len(trainRes) = 1
          /\ trainRes[1].n = 0
    /\ (pc = "idle" /\ stopSeen.seen) =>
          /\ outcome = "completed"
          /\ finalSaved

\* C11 witness: a run capped at two epochs was sent to epoch 2 by the
\* record read after its first epoch, returned with one EpochResult and
\* persisted its final results
C11_Witness ==
    /\ pc = "idle"
    /\ outcome = "completed"
    /\ finalSaved
    /\ nEpochs = 2
    /\ polled.kind = "epochInt"
    /\ polled.v = 2
    /\ Len(trainRes) = 1

\* C16: a null output of the module makes the step raise out of train()
\* (it is not caught like EarlyBail: the executor is not reset); the
\* failing step computes no loss, takes no optimizer step, appends nothing
\* to an EpochResult, and neither it nor anything after it in that run
\* writes a checkpoint or the final results.
C16_NullOutput ==
    /\ [](nullOut =>
            /\ pc = "idle"
            /\ outcome = "failed"
            /\ modelExists
            /\ cosExists
            /\ ~finalSaved)
    /\ [][(nullOut' /\ ~nullOut) =>
            /\ forwards' = forwards + 1
            /\ weights' = weights
            /\ trainRes' = trainRes
            /\ validRes' = validRes
            /\ validLossMin' = validLossMin
            /\ checkpoint' = checkpoint
            /\ ckptWrites' = ckptWrites]_vars
    /\ [][(nullOut /\ nullOut') => checkpoint' = checkpoint]_vars

\* C16 witness: the module returned null in the second epoch of a run whose
\* first epoch had written a checkpoint
C16_Witness ==
    /\ nullOut
    /\ outcome = "failed"
    /\ Len(trainRes) = 2
    /\ checkpoint.exists
    /\ checkpoint.iter = 1
    /\ ckptWrites = 1

\* ------------------------------------------------------ phase driver
\* _execute runs a phase (train or test) on the batches of its splits:
\* it looks the lists up in cached_batches or prepares them, calls the
\* phase function, which steps through the batches, and releases what it
\* scheduled for release.  A batch is a record: its split, its position in
\* the split, whether it is a copy on the device, and the phase that made
\* the copy (0 for the batches of the provider).

\* batches each split of the provider holds
MaxSplit == 2
\* phases run
MaxPhases == 2
\* changes of the settings between phases
MaxChanges == 1

\* values of model_settings.batch_iteration; other is any unknown name
BatchIterations == {"gpu", "cpu", "buffered", "other"}

Min(a, b) == IF a <= b THEN a ELSE b

\* a batch as the split provider yields it, in host memory
SrcBatch(split, i) == [split |-> split, i |-> i, dev |-> FALSE, ph |-> 0]

\* Batch.to(): a batch on the device is returned as it is, a host batch is
\* copied to the device, and the copy holds device memory until released
ToDevice(b, ph) == IF b.dev THEN b ELSE [b EXCEPT !.dev = TRUE, !.ph = ph]

\* it.islice(src.values(), batch_limit)
Drawn(split, limit) ==
    [i \in 1..Min(limit, MaxSplit) |-> SrcBatch(split, i)]

\* the elements of a list
Elems(l) == {l[i] : i \in 1..Len(l)}

\* chain.from_iterable over the lists of one cache entry
BatchesOf(ds) == UNION {Elems(ds.lists[k]) : k \in 1..Len(ds.lists)}

\* chain.from_iterable over all the entries of cached_batches
CachedBatchSet(cache) == UNION {BatchesOf(cache[n]) : n \in SetsNames}

\* the test of the settings that never raises
ConfigError_Never(cb, biter) == FALSE

\* _execute: cache_batches and biter == 'buffered' raise ValueError
ConfigError(cb, biter) == cb /\ biter = "buffered"

\* the release of the step without regard to cache_batches
StepReleases_IgnoreCache(biter, cb) == biter = "cpu" \/ biter = "buffered"

\* _iter_batch, finally: the batch of the step is deallocated
StepReleases(biter, cb) == (biter = "cpu" /\ ~cb) \/ biter = "buffered"

\* how preparing one split can end: it completes, the provider raises
\* while the batches are drawn, or the copy of the last batch drawn raises
PrepareFailures(biter) ==
    IF biter = "gpu" THEN {"none", "draw", "to"}
    ELSE IF biter = "cpu" THEN {"none", "draw"}
    ELSE {"none"}

\* _prepare_datasets for one split of the gpu and cpu policies: the batches
\* drawn, the device copies made, the list handed to the phase function
\* and what is added to to_deallocate
PreparedSplit(biter, cb, split, limit, ph, fail) ==
    LET cpu == IF fail = "draw" THEN <<>> ELSE Drawn(split, limit)
        made == IF fail = "to" THEN Len(cpu) - 1 ELSE Len(cpu)
        copies == [i \in 1..made |-> ToDevice(cpu[i], ph)]
    IN IF biter = "gpu"
       THEN [drawn |-> Len(cpu), copies |-> Elems(copies),
             batches |-> copies,
             dealloc |-> IF cb THEN cpu ELSE cpu \o copies]
       ELSE [drawn |-> Len(cpu), copies |-> {},
             batches |-> cpu,
             dealloc |-> IF cb THEN <<>> ELSE cpu]

\* how a step can end: it returns the loss, it raises EarlyBail (debug)
\* or it raises another exception (a null output, the numeric runtime)
StepOutcomes == {"return", "bail", "raise"}

\* train() or test() calls _execute with its sets_name
PhaseEnter ==
    /\ xpc = "idle"
    /\ phases < MaxPhases
    /\ \E name \in SetsNames : setsName' = name
    /\ xpc' = "check"
    /\ phases' = phases + 1
    /\ dsDst' = NoLists
    /\ toDeallocate' = <<>>
    /\ prepIdx' = 0
    /\ runList' = 0
    /\ runPos' = 0
    /\ pending' = "none"
    /\ exitKind' = "none"
    /\ usedCache' = FALSE
    /\ drawn' = 0
    /\ relocated' = 0
    /\ acquiredNow' = {}
    /\ releasedNow' = {}
    /\ cacheAtEnter' = cachedBatches
    /\ UNCHANGED <<batchIteration, cacheBatches, batchLimit, cachedBatches,
                   devMem, changes, deallocated>>
    /\ UNCHANGED <<mainVars, resVars, modVars, ordVars, memoVars>>

\* _execute: the test of the settings and the lookup in cached_batches
PhaseCheck ==
    /\ xpc = "check"
    /\ IF ConfigError(cacheBatches, batchIteration)
       THEN /\ xpc' = "idle"
            /\ exitKind' = "config"
            /\ deallocated' = NotDeallocated
            /\ UNCHANGED <<dsDst, usedCache, prepIdx, runList, runPos>>
       ELSE LET got == cachedBatches[setsName]
            IN IF got.kind # "none"
               THEN /\ dsDst' = got
                    /\ usedCache' = TRUE
                    /\ xpc' = "run"
                    /\ runList' = 1
                    /\ runPos' = 1
                    /\ UNCHANGED <<prepIdx, exitKind, deallocated>>
               ELSE /\ xpc' = "prepare"
                    /\ prepIdx' = 1
                    /\ dsDst' = [kind |-> "lists", lists |-> <<>>]
                    /\ UNCHANGED <<usedCache, runList, runPos, exitKind,
                                   deallocated>>
    /\ UNCHANGED <<batchIteration, cacheBatches, batchLimit, cachedBatches,
                   setsName, toDeallocate, pending, devMem, phases, changes,
                   drawn, relocated, acquiredNow, releasedNow, cacheAtEnter>>
    /\ UNCHANGED <<mainVars, resVars, modVars, ordVars, memoVars>>

\* _execute after _prepare_datasets returned: the lists are put in
\* cached_batches when cache_batches is set, and the phase function starts
PrepareDone(ds) ==
    /\ dsDst' = ds
    /\ cachedBatches' = IF cacheBatches
                        THEN [cachedBatches EXCEPT ![setsName] = ds]
                        ELSE cachedBatches
    /\ xpc' = "run"
    /\ runList' = 1
    /\ runPos' = 1
    /\ UNCHANGED <<prepIdx, exitKind, deallocated>>

\* an exception of _prepare_datasets leaves _execute before its try block
PrepareRaised ==
    /\ xpc' = "idle"
    /\ exitKind' = "prepare"
    /\ deallocated' = NotDeallocated
    /\ UNCHANGED <<dsDst, cachedBatches, prepIdx, runList, runPos>>

\* _prepare_datasets: one split of the gpu or cpu policy, the whole of the
\* buffered policy, or the error of an unknown policy
PrepareSplit ==
    /\ xpc = "prepare"
    /\ \E fail \in PrepareFailures(batchIteration) :
         LET split == SplitsOf(setsName)[prepIdx]
             r == PreparedSplit(batchIteration, cacheBatches, split,
                                batchLimit, phases, fail)
             ds == [dsDst EXCEPT !.lists = Append(@, r.batches)]
         IN CASE batchIteration \in {"gpu", "cpu"} ->
                   /\ drawn' = drawn + r.drawn
                   /\ relocated' = relocated + Cardinality(r.copies)
                   /\ acquiredNow' = acquiredNow \cup r.copies
                   /\ devMem' = devMem \cup r.copies
                   /\ IF fail # "none"
                      THEN /\ PrepareRaised
                           /\ UNCHANGED toDeallocate
                      ELSE /\ toDeallocate' = toDeallocate \o r.dealloc
                           /\ IF prepIdx = Len(SplitsOf(setsName))
                              THEN PrepareDone(ds)
                              ELSE /\ prepIdx' = prepIdx + 1
                                   /\ dsDst' = ds
                                   /\ UNCHANGED <<cachedBatches, xpc,
                                                  runList, runPos, exitKind,
                                                  deallocated>>
              [] batchIteration = "buffered" ->
                   /\ PrepareDone([kind |-> "src", lists |-> <<>>])
                   /\ UNCHANGED <<drawn, relocated, acquiredNow, devMem,
                                  toDeallocate>>
              [] OTHER ->
                   /\ PrepareRaised
                   /\ UNCHANGED <<drawn, relocated, acquiredNow, devMem,
                                  toDeallocate>>
    /\ UNCHANGED <<batchIteration, cacheBatches, batchLimit, setsName,
                   pending, phases, changes, usedCache, releasedNow,
                   cacheAtEnter>>
    /\ UNCHANGED <<mainVars, resVars, modVars, ordVars, memoVars>>

\* the batch the phase function hands to the step: an element of a list,
\* or the next batch drawn from the split when the split itself is iterated
CurrentBatch ==
    IF dsDst.kind = "src"
    THEN SrcBatch(SplitsOf(setsName)[runList], runPos)
    ELSE dsDst.lists[runList][runPos]

NumLists ==
    IF dsDst.kind = "src" THEN Len(SplitsOf(setsName)) ELSE Len(dsDst.lists)

ListLen(k) == IF dsDst.kind = "src" THEN MaxSplit ELSE Len(dsDst.lists[k])

\* _iter_batch as the phase function calls it for the next batch: the
\* batch is moved to the device, the step ends in one of its three ways,
\* and the finally clause deallocates the batch when the policy says so.
\* One pass over the lists stands for the phase function; a further epoch
\* of _train repeats the pass.
BatchStep ==
    /\ xpc = "run"
    /\ \E how \in StepOutcomes :
         LET b == CurrentBatch
             d == ToDevice(b, phases)
             rel == StepReleases(batchIteration, cacheBatches)
             held == IF b.dev THEN devMem ELSE devMem \cup {d}
         IN /\ drawn' = drawn + (IF dsDst.kind = "src" THEN 1 ELSE 0)
            /\ relocated' = relocated + (IF b.dev THEN 0 ELSE 1)
            /\ acquiredNow' =
                  IF b.dev THEN acquiredNow ELSE acquiredNow \cup {d}
            /\ devMem' = IF rel THEN held \ {d} ELSE held
            /\ releasedNow' =
                  IF rel THEN releasedNow \cup {d} ELSE releasedNow
            /\ IF how = "return"
               THEN IF runPos < ListLen(runList)
                    THEN /\ runPos' = runPos + 1
                         /\ UNCHANGED <<runList, xpc, pending>>
                    ELSE IF runList < NumLists
                         THEN /\ runList' = runList + 1
                              /\ runPos' = 1
                              /\ UNCHANGED <<xpc, pending>>
                         ELSE /\ xpc' = "exit"
                              /\ pending' = "completed"
                              /\ UNCHANGED <<runList, runPos>>
               ELSE /\ xpc' = "exit"
                    /\ pending' = IF how = "bail" THEN "bailed" ELSE "raised"
                    /\ UNCHANGED <<runList, runPos>>
    /\ UNCHANGED <<batchIteration, cacheBatches, batchLimit, cachedBatches,
                   setsName, dsDst, toDeallocate, prepIdx, phases, changes,
                   exitKind, usedCache, cacheAtEnter, deallocated>>
    /\ UNCHANGED <<mainVars, resVars, modVars, ordVars, memoVars>>

\* _execute, finally: every batch of to_deallocate is deallocated; then the
\* phase returns True, returns False after a bail, or raises
PhaseExit ==
    /\ xpc = "exit"
    /\ devMem' = devMem \ Elems(toDeallocate)
    /\ releasedNow' = releasedNow \cup Elems(toDeallocate)
    /\ exitKind' = pending
    /\ pending' = "none"
    /\ xpc' = "idle"
    /\ deallocated' = NotDeallocated
    /\ UNCHANGED <<batchIteration, cacheBatches, batchLimit, cachedBatches,
                   setsName, dsDst, toDeallocate, prepIdx, runList, runPos,
                   phases, changes, usedCache, drawn, relocated, acquiredNow,
                   cacheAtEnter>>
    /\ UNCHANGED <<mainVars, resVars, modVars, ordVars, memoVars>>

\* deallocate_batches without the clear of the map
DeallocateClear_Keep(cache) == cache

\* deallocate_batches: self.cached_batches.clear()
DeallocateClear(cache) == NoCachedBatches

\* deallocate_batches: every batch of every cached list is deallocated and
\* the map is cleared
DeallocateBatches ==
    /\ xpc = "idle"
    /\ devMem' = devMem \ CachedBatchSet(cachedBatches)
    /\ cachedBatches' = DeallocateClear(cachedBatches)
    /\ deallocated' = [ran |-> TRUE,
                       batches |-> deallocated.batches
                                   \cup CachedBatchSet(cachedBatches)]
    /\ UNCHANGED <<batchIteration, cacheBatches, batchLimit, xpc, setsName,
                   dsDst, toDeallocate, prepIdx, runList, runPos, pending,
                   phases, changes, exitKind, usedCache, drawn, relocated,
                   acquiredNow, releasedNow, cacheAtEnter>>
    /\ UNCHANGED <<mainVars, resVars, modVars, ordVars, memoVars>>

\* the owner of the model settings changes the policy between two phases
ChangeSettings ==
    /\ xpc = "idle"
    /\ changes < MaxChanges
    /\ \E bi \in BatchIterations, cb \in BOOLEAN :
         /\ <<bi, cb>> # <<batchIteration, cacheBatches>>
         /\ batchIteration' = bi
         /\ cacheBatches' = cb
    /\ changes' = changes + 1
    /\ UNCHANGED <<batchLimit, cachedBatches, xpc, setsName, dsDst,
                   toDeallocate, prepIdx, runList, runPos, pending, devMem,
                   phases, exitKind, usedCache, drawn, relocated,
                   acquiredNow, releasedNow, cacheAtEnter, deallocated>>
    /\ UNCHANGED <<mainVars, resVars, modVars, ordVars, memoVars>>

BatchInit ==
    /\ batchIteration \in BatchIterations
    /\ cacheBatches \in BOOLEAN
    /\ batchLimit \in 1..MaxSplit
    /\ PhaseStart
    /\ ExecFixed
    /\ ResultStart
    /\ ModelFixed
    /\ OrderFixed
    /\ MemoFixed

BatchNext ==
    \/ PhaseEnter
    \/ PhaseCheck
    \/ PrepareSplit
    \/ BatchStep
    \/ PhaseExit
    \/ DeallocateBatches
    \/ ChangeSettings

BatchSpec == BatchInit /\ [][BatchNext]_vars

\* C12: with batch_iteration = buffered and cache_batches = true a phase
\* (train or test) never gets past the test of its settings: it ends with
\* the configuration error, having drawn no batch from the split provider,
\* copied none to the device, released none and put nothing in
\* cached_batches.
C12_ConfigFailsFast ==
    /\ (cacheBatches /\ batchIteration = "buffered") =>
          xpc \in {"idle", "check"}
    /\ (xpc = "idle" /\ exitKind = "config") =>
          /\ drawn = 0
          /\ relocated = 0
          /\ acquiredNow = {}
          /\ releasedNow = {}
          /\ toDeallocate = <<>>
          /\ (~deallocated.ran => cachedBatches = cacheAtEnter)
    /\ (xpc = "idle" /\ exitKind \notin {"none", "config"}
            /\ changes = 0) =>
          ~(cacheBatches /\ batchIteration = "buffered")

\* C12 witness: a phase failed with the configuration error while the map
\* held the lists an earlier phase had cached
C12_Witness ==
    /\ xpc = "idle"
    /\ exitKind = "config"
    /\ phases = 2
    /\ cacheBatches
    /\ batchIteration = "buffered"
    /\ cachedBatches["train"].kind = "lists"

\* C13: with cache_batches = true, a phase that finds no lists under its
\* name stores the lists it prepared in cached_batches under that name; a
\* phase that finds lists under its name uses exactly these, draws no batch
\* from the split provider, schedules nothing for release and releases none
\* of the cached batches, in its steps or at its end.
C13_CacheReuse ==
    (cacheBatches /\ xpc \in {"run", "exit"}) =>
        /\ dsDst.kind = "lists"
        /\ cachedBatches[setsName] = dsDst
        /\ Elems(toDeallocate) \cap BatchesOf(dsDst) = {}
        /\ releasedNow \cap BatchesOf(dsDst) = {}
        /\ usedCache <=> (cacheAtEnter[setsName].kind # "none")
        /\ usedCache =>
              /\ dsDst = cacheAtEnter[setsName]
              /\ cachedBatches = cacheAtEnter
              /\ drawn = 0
              /\ toDeallocate = <<>>

\* C13 witness: the second phase under the name train has stepped through
\* all the batches of the lists the first one cached, and is about to end
C13_Witness ==
    /\ cacheBatches
    /\ batchIteration = "cpu"
    /\ xpc = "exit"
    /\ pending = "completed"
    /\ phases = 2
    /\ setsName = "train"
    /\ usedCache
    /\ Len(dsDst.lists) = 2

\* C14: after deallocate_batches the map is empty and none of the batches
\* its lists held retains device memory; the next phase finds no lists,
\* whatever its name, and prepares its batches from the split provider
\* again (or, when buffered, iterates the source).
C14_DeallocateBatches ==
    /\ (deallocated.ran /\ xpc = "idle") =>
          /\ cachedBatches = NoCachedBatches
          /\ deallocated.batches \cap devMem = {}
    /\ (deallocated.ran /\ xpc \in {"run", "exit"}) =>
          /\ cacheAtEnter = NoCachedBatches
          /\ ~usedCache
          /\ batchIteration \in {"gpu", "cpu"} =>
                /\ dsDst.kind = "lists"
                /\ drawn = Len(dsDst.lists) * Min(batchLimit, MaxSplit)
                /\ drawn > 0
          /\ batchIteration = "buffered" => dsDst.kind = "src"

\* C14 witness: deallocate_batches released the device copies the first
\* phase had cached, and the second phase has prepared its lists anew
C14_Witness ==
    /\ deallocated.ran
    /\ \E b \in deallocated.batches : b.dev /\ b.ph = 1
    /\ xpc = "run"
    /\ phases = 2
    /\ batchIteration = "gpu"
    /\ cacheBatches
    /\ drawn > 0
    /\ \E b \in BatchesOf(cachedBatches[setsName]) : b.ph = 2

\* C15 (as stated): when no phase is running, the only batches that retain
\* device memory are batches held in cached_batches: whatever a phase
\* acquired device memory for and did not cache was released by the time
\* the phase ended, however it ended.
C15_Original ==
    xpc = "idle" => devMem \subseteq CachedBatchSet(cachedBatches)

\* -------------------------------------------------- result containers
\* EpochResult and DatasetResult of result/domain.py.  A DatasetResult is
\* its list of EpochResults; an EpochResult is the record of its five
\* lists.  Quotients of floats are kept as exact fractions [n, d].

\* EpochResults appended to the DatasetResult
MaxResEpochs == 2
\* updates of one EpochResult
MaxUpdates == 2
\* data points of a batch
MaxBatchSize == 2

\* values of loss.item()
LossValues == {1, 2}

\* a / b of two numbers, as a fraction
Frac(a, b) == [n |-> a, d |-> b]

\* x / k for a fraction x
FracDiv(x, k) == [n |-> x.n, d |-> x.d * k]

FracAdd(x, y) == [n |-> x.n * y.d + y.n * x.d, d |-> x.d * y.d]

FracEq(x, y) == x.n * y.d = y.n * x.d

FracLess(x, y) == x.n * y.d < y.n * x.d

\* a batch handed to update: its id and the ids of its data points
ResBatch(id, size) == [id |-> id, ids |-> [k \in 1..size |-> <<id, k>>]]

\* EpochResult(index, split_type)
NewEpochResult(index) ==
    [index |-> index, loss_updates |-> <<>>, n_data_points |-> <<>>,
     prediction_updates |-> <<>>, batch_ids |-> <<>>, id_updates |-> <<>>]

\* how update can end: it returns, label_shape[0] raises (labels without
\* a dimension), or torch.stack raises (predictions and labels of
\* different shapes)
UpdateFailures == {"none", "shape", "stack"}

\* EpochResult.update: the five appends in the order of the code, up to
\* the statement that raises
Update(er, batch, loss, fail) ==
    LET e1 == [er EXCEPT !.loss_updates = Append(@, loss * Len(batch.ids))]
        e2 == [e1 EXCEPT !.n_data_points = Append(@, Len(batch.ids))]
        e3 == [e2 EXCEPT !.prediction_updates = Append(@, batch.id)]
        e4 == [e3 EXCEPT !.batch_ids = Append(@, batch.id)]
        e5 == [e4 EXCEPT !.id_updates = Append(@, batch.ids)]
    IN CASE fail = "shape" -> e1
         [] fail = "stack" -> e2
         [] OTHER -> e5

RECURSIVE SumSeq(_)
SumSeq(q) == IF q = <<>> THEN 0 ELSE Head(q) + SumSeq(Tail(q))

RECURSIVE Chain(_)
\* itertools.chain.from_iterable
Chain(q) == IF q = <<>> THEN <<>> ELSE Head(q) \o Chain(Tail(q))

\* EpochResult.get_ids
EpochGetIds(er) == Chain(er.id_updates)

\* ResultsContainer.__len__ of an EpochResult: len(self.get_ids())
EpochLen(er) == Len(EpochGetIds(er))

\* DatasetResult.get_ids
DatasetGetIds(ds) == Chain([i \in 1..Len(ds) |-> EpochGetIds(ds[i])])

\* ResultsContainer.__len__ of a DatasetResult
DatasetLen(ds) == Len(DatasetGetIds(ds))

\* EpochResult.get_loss: sum(self.loss_updates) / len(self)
EpochGetLoss(er) == Frac(SumSeq(er.loss_updates), EpochLen(er))

\* ResultsContainer.loss of an EpochResult: _assert_results, then get_loss
EpochLossProp(er) ==
    IF EpochLen(er) = 0 THEN Raised("NoResults") ELSE Value(EpochGetLoss(er))

RECURSIVE FracSum(_)
FracSum(q) ==
    IF q = <<>> THEN Frac(0, 1) ELSE FracAdd(Head(q), FracSum(Tail(q)))

\* DatasetResult.get_losses: tuple(map(lambda r: r.loss, self.results)),
\* where r.loss raises for an EpochResult without results
DatasetGetLosses(ds) ==
    IF \E i \in 1..Len(ds) : EpochLen(ds[i]) = 0
    THEN Raised("NoResults")
    ELSE Value([i \in 1..Len(ds) |-> EpochGetLoss(ds[i])])

\* DatasetResult.get_loss: the sum of the losses of the epochs over the sum
\* of their lengths, 0 when that is 0
DatasetGetLoss(ds) ==
    LET losses == DatasetGetLosses(ds)
        batch_sum == SumSeq([i \in 1..Len(ds) |-> EpochLen(ds[i])])
    IN IF losses.kind # "value" THEN losses
       ELSE IF batch_sum = 0 THEN Value(Frac(0, 1))
       ELSE Value(FracDiv(FracSum(losses.val), batch_sum))

\* ResultsContainer.loss of a DatasetResult
DatasetLossProp(ds) ==
    IF DatasetLen(ds) = 0 THEN Raised("NoResults") ELSE DatasetGetLoss(ds)

\* min(losses) and losses.index(lowest) for losses given as fractions: the
\* first position of the least element, counted from 0; min of an empty
\* sequence raises ValueError
IndexOfMin(q) ==
    IF Len(q) = 0 THEN Raised("ValueError")
    ELSE Value((CHOOSE i \in 1..Len(q) :
                   /\ \A j \in 1..Len(q) : ~FracLess(q[j], q[i])
                   /\ \A j \in 1..(i - 1) : FracLess(q[i], q[j])) - 1)

\* ResultsContainer.convergence of an EpochResult: losses is loss_updates
EpochConvergence(er) ==
    IndexOfMin([i \in 1..Len(er.loss_updates) |->
                   Frac(er.loss_updates[i], 1)])

\* ResultsContainer.convergence of a DatasetResult
DatasetConvergence(ds) ==
    LET losses == DatasetGetLosses(ds)
    IN IF losses.kind # "value" THEN losses
       ELSE IndexOfMin(losses.val)

\* the properties that start with _assert_results
GuardedProps == {"ids", "outcomes", "labels", "predictions", "loss",
                 "micro_metrics", "macro_metrics", "dataframe"}

\* the derived properties of a container
Props == GuardedProps \cup {"losses", "convergence"}

\* a property read on an EpochResult
ReadEpoch(er, prop) ==
    CASE prop = "loss" -> EpochLossProp(er)
      [] prop = "losses" -> Value(er.loss_updates)
      [] prop = "convergence" -> EpochConvergence(er)
      [] prop = "ids" ->
            IF EpochLen(er) = 0 THEN Raised("NoResults")
            ELSE Value(EpochGetIds(er))
      [] OTHER ->
            IF EpochLen(er) = 0 THEN Raised("NoResults")
            ELSE Value(er.prediction_updates)

\* a property read on a DatasetResult
ReadDataset(ds, prop) ==
    CASE prop = "loss" -> DatasetLossProp(ds)
      [] prop = "losses" -> DatasetGetLosses(ds)
      [] prop = "convergence" -> DatasetConvergence(ds)
      [] prop = "ids" ->
            IF DatasetLen(ds) = 0 THEN Raised("NoResults")
            ELSE Value(DatasetGetIds(ds))
      [] OTHER ->
            IF DatasetLen(ds) = 0 \/ \E i \in 1..Len(ds) : EpochLen(ds[i]) = 0
            THEN Raised("NoResults")
            ELSE Value([i \in 1..Len(ds) |-> ds[i].prediction_updates])

\* the EpochResult of the running epoch
LastEpoch == dsResults[Len(dsResults)]

\* _train, start of an epoch: a new EpochResult is appended to the
\* DatasetResult before any batch runs, and vloss starts at 0
AppendEpoch ==
    /\ ~updFailed
    /\ Len(dsResults) < MaxResEpochs
    /\ dsResults = <<>> \/ vloss.done
    /\ dsResults' = Append(dsResults, NewEpochResult(Len(dsResults)))
    /\ vloss' = [n |-> 0, d |-> 1, done |-> FALSE]
    /\ UNCHANGED <<lastRead, updFailed>>
    /\ UNCHANGED <<mainVars, batchVars, modVars, ordVars, memoVars>>

\* one validation step: _iter_batch calls epoch_result.update and returns
\* the loss, which the loop adds to vloss times the batch size; an update
\* that raises leaves _train with the exception
UpdateEpoch ==
    /\ ~updFailed
    /\ dsResults # <<>>
    /\ ~vloss.done
    /\ Len(LastEpoch.loss_updates) < MaxUpdates
    /\ \E size \in 1..MaxBatchSize, loss \in LossValues,
          fail \in UpdateFailures :
          LET batch == ResBatch(Len(LastEpoch.loss_updates), size)
          IN /\ dsResults' = [dsResults EXCEPT ![Len(dsResults)] =
                                 Update(@, batch, loss, fail)]
             /\ IF fail = "none"
                THEN /\ vloss' = [vloss EXCEPT !.n = @ + loss * size]
                     /\ UNCHANGED updFailed
                ELSE /\ updFailed' = TRUE
                     /\ UNCHANGED vloss
    /\ UNCHANGED lastRead
    /\ UNCHANGED <<mainVars, batchVars, modVars, ordVars, memoVars>>

\* the end of the validation loop: vloss = vloss / len(valid), where every
\* batch of valid has been recorded by one update
EndValidation ==
    /\ ~updFailed
    /\ dsResults # <<>>
    /\ ~vloss.done
    /\ Len(LastEpoch.loss_updates) >= 1
    /\ vloss' = [vloss EXCEPT !.d = Len(LastEpoch.loss_updates),
                              !.done = TRUE]
    /\ UNCHANGED <<dsResults, lastRead, updFailed>>
    /\ UNCHANGED <<mainVars, batchVars, modVars, ordVars, memoVars>>

\* a caller reads a derived property of the DatasetResult or of one of
\* its EpochResults
ReadProperty ==
    /\ \E prop \in Props :
          \/ lastRead' = [prop |-> prop, on |-> "dataset",
                          empty |-> (DatasetLen(dsResults) = 0),
                          kind |-> ReadDataset(dsResults, prop).kind]
          \/ \E i \in 1..Len(dsResults) :
                lastRead' = [prop |-> prop, on |-> "epoch",
                             empty |-> (EpochLen(dsResults[i]) = 0),
                             kind |-> ReadEpoch(dsResults[i], prop).kind]
    /\ UNCHANGED <<dsResults, vloss, updFailed>>
    /\ UNCHANGED <<mainVars, batchVars, modVars, ordVars, memoVars>>

ResultInit ==
    /\ ExecFixed
    /\ PhaseFixed
    /\ ResultStart
    /\ ModelFixed
    /\ OrderFixed
    /\ MemoFixed

ResultNext ==
    \/ AppendEpoch
    \/ UpdateEpoch
    \/ EndValidation
    \/ ReadProperty

ResultSpec == ResultInit /\ [][ResultNext]_vars

\* C17: every EpochResult has equally long lists of batch losses, batch
\* identifiers, data-point counts and stacked prediction/label matrices,
\* also after an update that failed part-way
C17_Original ==
    \A i \in 1..Len(dsResults) :
        LET er == dsResults[i]
        IN /\ Len(er.loss_updates) = Len(er.batch_ids)
           /\ Len(er.batch_ids) = Len(er.n_data_points)
           /\ Len(er.n_data_points) = Len(er.prediction_updates)

\* the loss contributions of all epochs of a DatasetResult, summed
TotalLoss(ds) == SumSeq([i \in 1..Len(ds) |-> SumSeq(ds[i].loss_updates)])

\* the data-point counts of all epochs of a DatasetResult, summed
TotalPoints(ds) == SumSeq([i \in 1..Len(ds) |-> SumSeq(ds[i].n_data_points)])

\* C18: the average loss of a DatasetResult that contains results is the
\* sum over its epochs of the summed loss contributions divided by the sum
\* over its epochs of the data-point counts; the average loss of an empty
\* DatasetResult is 0
C18_Original ==
    IF DatasetLen(dsResults) > 0
    THEN /\ DatasetLossProp(dsResults).kind = "value"
         /\ FracEq(DatasetLossProp(dsResults).val,
                   Frac(TotalLoss(dsResults), TotalPoints(dsResults)))
    ELSE /\ DatasetGetLoss(dsResults).kind = "value"
         /\ DatasetGetLoss(dsResults).val.n = 0

\* C19: the average loss of a non-empty EpochResult is the sum of its
\* recorded loss contributions divided by the number of recorded batch
\* losses, and for the epoch whose validation loop has ended it equals the
\* validation loss the training loop accumulated
C19_Original ==
    /\ \A i \in 1..Len(dsResults) :
          EpochLen(dsResults[i]) > 0 =>
              /\ EpochLossProp(dsResults[i]).kind = "value"
              /\ FracEq(EpochLossProp(dsResults[i]).val,
                        Frac(SumSeq(dsResults[i].loss_updates),
                             Len(dsResults[i].loss_updates)))
    /\ (dsResults # <<>> /\ vloss.done /\ EpochLen(LastEpoch) > 0) =>
          FracEq(EpochLossProp(LastEpoch).val, vloss)

\* the derived properties the guard is claimed for
ClaimedProps == {"labels", "predictions", "micro_metrics", "macro_metrics",
                 "loss", "convergence"}

\* C20: a derived property read on a container without results raises
\* NoResults, but for the average loss of a DatasetResult: it returns no
\* value and fails with no other error
C20_Original ==
    (/\ lastRead.prop \in ClaimedProps
     /\ lastRead.empty
     /\ ~(lastRead.on = "dataset" /\ lastRead.prop = "loss"))
        => lastRead.kind = "NoResults"

\* C30: whenever the phase function runs with batch_iteration = buffered,
\* cached_batches is empty and the phase iterates the split source itself,
\* whatever phases and changes of the settings came before
C30_Original ==
    (xpc = "run" /\ batchIteration = "buffered") =>
        /\ cachedBatches = NoCachedBatches
        /\ dsDst.kind = "src"

\* ------------------------------------------- executor and ModelResult
\* calls of train() and test()
MaxCalls == 2

\* every variable of the phase driver but cached_batches
phaseRest == <<batchIteration, cacheBatches, batchLimit, xpc, setsName,
               dsDst, toDeallocate, prepIdx, runList, runPos, pending,
               devMem, phases, changes, exitKind, usedCache, drawn,
               relocated, acquiredNow, releasedNow, cacheAtEnter,
               deallocated>>

\* _execute: the lists _prepare_datasets returns are put in cached_batches
\* when cache_batches is set and the map has no lists for sets_name
CachedAfter(name) ==
    IF cacheBatches /\ cachedBatches[name].kind = "none"
    THEN [cachedBatches EXCEPT ![name] =
             [kind |-> "lists",
              lists |-> [k \in 1..Len(SplitsOf(name)) |->
                            PreparedSplit(batchIteration, TRUE,
                                          SplitsOf(name)[k], batchLimit,
                                          0, "none").batches]]]
    ELSE cachedBatches

\* the variables of the executor another action than a step leaves alone
stepVars == <<lastOps, trace, schedArg>>

\* EpochResult(index, split_type): no updates yet
SplitEpochResult(index, split) ==
    [index |-> index, split_type |-> split, losses |-> <<>>, ids |-> <<>>]

\* EpochResult.update: the loss contribution and the ids of the batch (here
\* their number) are appended
RecordStep(er, contrib, size) ==
    [er EXCEPT !.losses = Append(@, contrib), !.ids = Append(@, size)]

\* ResultsContainer.__len__ of an EpochResult: the number of ids recorded
SplitEpochLen(er) == SumSeq(er.ids)

\* ResultsContainer.__len__ of a DatasetResult
SplitLen(ds) ==
    SumSeq([i \in 1..Len(ds.results) |-> SplitEpochLen(ds.results[i])])

\* DatasetResult.start
DsStart(ds) ==
    [ds EXCEPT !.start_time = "set", !.starts = Append(@, Len(ds.results))]

\* DatasetResult.end
DsEnd(ds) ==
    [ds EXCEPT !.end_time = "set", !.ends = Append(@, Len(ds.results))]

\* DatasetResult.append
DsAppend(ds, er) == [ds EXCEPT !.results = Append(@, er)]

\* ModelResult.__post_init__ with a counter that is not incremented
NextRuns_Same(n) == n

\* ModelResult.__post_init__: _runs += 1
NextRuns(n) == n + 1

\* ModelResult.__post_init__: index = _runs after the increment, and a new
\* DatasetResult for each of train, validation and test
CreateModelResult(n) ==
    [none |-> FALSE, index |-> NextRuns(n), train |-> NewDatasetResult,
     validation |-> NewDatasetResult, test |-> NewDatasetResult]

\* ModelResult.reset(name)
MrReset(mr, name) == [mr EXCEPT ![name] = NewDatasetResult]

\* the name chosen with the validation result preferred
LastTestDatasetResultName_ValidFirst(mr) ==
    IF SplitLen(mr.validation) > 0 THEN "validation"
    ELSE IF SplitLen(mr.test) > 0 THEN "test"
    ELSE "NoResults"

\* ModelResult.last_test_dataset_result_name; NoResults stands for the
\* NoResultsException raised
LastTestDatasetResultName(mr) ==
    IF SplitLen(mr.test) > 0 THEN "test"
    ELSE IF SplitLen(mr.validation) > 0 THEN "validation"
    ELSE "NoResults"

\* the keys of the directory: those of its serialized results
StoreKeys(dir) == {f.key : f \in {g \in dir : g.ext = "dat"}}

\* IncrementKeyDirectoryStash.get_last_key(inc): the highest key, 0 on an
\* empty directory, plus one when inc is set
GetLastKey(dir, inc) ==
    LET keys == StoreKeys(dir)
        last == IF keys = {} THEN 0
                ELSE CHOOSE k \in keys : \A j \in keys : j <= k
    IN IF inc THEN last + 1 ELSE last

\* a file is written: one of the same name is replaced
PutFile(dir, f) ==
    {g \in dir : ~(g.key = f.key /\ g.ext = f.ext)} \cup {f}

\* IncrementKeyDirectoryStash.dump(result): the serialized result is
\* written under the key get_last_key(True); n is the number of the dump
StashDump(dir, mr, n) ==
    PutFile(dir, [key |-> GetLastKey(dir, TRUE), ext |-> "dat",
                  result |-> mr, dump |-> n])

\* the key of the text file, taken as the key after the last one
TextKey_Next(dir) == GetLastKey(dir, TRUE)

\* ModelResultManager.dump: key = self.get_last_key(False), read after
\* the serialized result was written
TextKey(dir) == GetLastKey(dir, FALSE)

\* ModelResultManager.dump: super().dump(result), then the text file when
\* save_text is set
ManagerDump(dir, mr, n, text) ==
    LET dumped == StashDump(dir, mr, n)
    IN IF text
       THEN PutFile(dumped, [key |-> TextKey(dumped), ext |-> "txt",
                             result |-> mr, dump |-> n])
       ELSE dumped

\* IncrementKeyDirectoryStash.load(): the result at the highest key, None
\* on an empty directory
StashLoad(dir) ==
    IF StoreKeys(dir) = {} THEN NoModelResult
    ELSE (CHOOSE f \in dir :
              f.ext = "dat" /\ f.key = GetLastKey(dir, FALSE)).result

\* the step with the backward pass and the optimizer step on every split
IterBatchOps_AllSplits(split, out, dbg) ==
    IF out = "null" THEN <<"zero_grad", "forward">>
    ELSE <<"zero_grad", "forward", "loss", "backward", "step", "decode">>
         \o (IF dbg THEN <<>> ELSE <<"append">>)

\* _iter_batch: what the step does, in order, up to the statement that
\* raises (the null output after the forward pass, the debug bail after
\* the decoding)
IterBatchOps(split, out, dbg) ==
    LET train == split = "train"
        zero == IF train THEN <<"zero_grad">> ELSE <<>>
        back == IF train THEN <<"backward", "step">> ELSE <<>>
    IN IF out = "null" THEN zero \o <<"forward">>
       ELSE zero \o <<"forward", "loss">> \o back \o <<"decode">>
            \o (IF dbg THEN <<>> ELSE <<"append">>)

\* loss.item() * batch.size() of the steps of a split
StepLosses(split) ==
    IF split = "validation" THEN {Scale * l : l \in FiniteLosses}
    ELSE {Scale}

\* the value handed to the scheduler without the division
SchedulerArg_Sum(sum, n) == sum

\* _train: vloss = vloss / len(valid), the value of scheduler.step(vloss)
SchedulerArg(sum, n) == DivF(sum, n)

\* a call and how it ended
Call(kind, done) == [kind |-> kind, done |-> done]

\* the number of batches of a split
BatchCount(split) ==
    CASE split = "train" -> nTrain
      [] split = "validation" -> nValid
      [] OTHER -> nTest

\* the EpochResult of the running epoch of a split records one step
RecordIn(mr, split, contrib) ==
    [mr EXCEPT ![split].results[Len(mr[split].results)] =
                   RecordStep(@, contrib, 1)]

\* the variables of _train and _test are gone when the call is left
LocalsGone ==
    /\ mEpoch' = 0
    /\ mBatch' = 0
    /\ mVloss' = 0
    /\ mLossMin' = Inf

\* train(): self.model_result = self._create_model_result()
TrainCall ==
    /\ mpc = "idle"
    /\ calls < MaxCalls
    /\ modelResult' = CreateModelResult(numRuns)
    /\ numRuns' = NextRuns(numRuns)
    /\ atCall' = Call("train", "running")
    /\ calls' = calls + 1
    /\ lastTest' = NoLastTest
    /\ mpc' = "begin"
    /\ UNCHANGED <<hasScheduler, nTest, saveText, hasModel, hasCos, store,
                   ckpt, mEpoch, mBatch, mVloss, mLossMin, dumps, stepVars>>
    /\ built' = [index |-> modelResult'.index, reset |-> FALSE]
    /\ UNCHANGED <<mainVars, batchVars, resVars, ordVars, memoVars>>

\* _execute up to the call of _train, where the lists are cached, and
\* _train up to its loop: the model and the optimizer triple are there,
\* valid_loss_min is infinite, the train result is started, epoch = 0
TrainBegin ==
    /\ mpc = "begin"
    /\ hasModel' = TRUE
    /\ hasCos' = TRUE
    /\ mLossMin' = Inf
    /\ modelResult' = [modelResult EXCEPT !.train = DsStart(@)]
    /\ mEpoch' = 0
    /\ mpc' = "loop"
    /\ lastOps' = <<>>
    /\ trace' = <<>>
    /\ schedArg' = NoSchedArg
    /\ UNCHANGED <<hasScheduler, nTest, saveText, numRuns, store, ckpt,
                   mBatch, mVloss, calls, dumps, lastTest, atCall>>
    /\ UNCHANGED built
    /\ cachedBatches' = CachedAfter("train")
    /\ UNCHANGED <<mainVars, resVars, phaseRest, ordVars, memoVars>>

\* _train, the test of the loop: a further epoch appends its two
\* EpochResults; after the last one the train result is ended, the final
\* results are saved and train() returns
EpochLoop ==
    /\ mpc = "loop"
    /\ IF mEpoch < nEpochs
       THEN /\ modelResult' =
                 [modelResult EXCEPT
                     !.train =
                         DsAppend(@, SplitEpochResult(mEpoch, "train")),
                     !.validation =
                         DsAppend(@, SplitEpochResult(mEpoch, "validation"))]
            /\ mBatch' = 0
            /\ mpc' = "train"
            /\ trace' = <<>>
            /\ UNCHANGED <<ckpt, atCall, mEpoch, mVloss, mLossMin>>
       ELSE /\ modelResult' = [modelResult EXCEPT !.train = DsEnd(@)]
            /\ ckpt' = IF SaveFinalTrainedResults THEN ckpt + 1 ELSE ckpt
            /\ mpc' = "idle"
            /\ atCall' = [atCall EXCEPT !.done = "returned"]
            /\ LocalsGone
            /\ UNCHANGED trace
    /\ UNCHANGED <<hasScheduler, nTest, saveText, numRuns, hasModel, hasCos,
                   store, calls, dumps, lastOps, schedArg, lastTest>>
    /\ UNCHANGED built
    /\ UNCHANGED <<mainVars, batchVars, resVars, ordVars, memoVars>>

\* _iter_batch on the next batch of the train, validation or test loop.
\* A step that returns has recorded itself in the EpochResult, and the
\* validation loop adds its loss to vloss; EarlyBail makes _execute reset
\* the executor and return; another exception leaves the call.
StepBatch ==
    /\ mpc \in {"train", "validation", "test"}
    /\ \E out \in ModuleOutputs, contrib \in StepLosses(mpc) :
         LET how == IterBatchExit(out, debug)
             last == mBatch + 1 = BatchCount(mpc)
         IN /\ lastOps' = IterBatchOps(mpc, out, debug)
            /\ trace' = Append(trace, mpc)
            /\ CASE how = "return" ->
                      /\ modelResult' = RecordIn(modelResult, mpc, contrib)
                      /\ mVloss' = CASE mpc = "train" -> 0
                                     [] mpc = "validation" ->
                                          AddF(mVloss, contrib)
                                     [] OTHER -> mVloss
                      /\ mBatch' = IF last THEN 0 ELSE mBatch + 1
                      /\ mpc' = CASE ~last -> mpc
                                  [] mpc = "train" -> "validation"
                                  [] mpc = "validation" -> "endvalid"
                                  [] OTHER -> "testend"
                      /\ UNCHANGED <<hasModel, hasCos, atCall, mEpoch,
                                     mLossMin>>
                 [] how = "bail" ->
                      /\ hasModel' = ResetModelExists
                      /\ hasCos' = ResetCosExists
                      /\ mpc' = "idle"
                      /\ atCall' = [atCall EXCEPT !.done = "bailed"]
                      /\ LocalsGone
                      /\ UNCHANGED modelResult
                 [] OTHER ->
                      /\ mpc' = "idle"
                      /\ atCall' = [atCall EXCEPT !.done = "raised"]
                      /\ LocalsGone
                      /\ UNCHANGED <<modelResult, hasModel, hasCos>>
    /\ UNCHANGED <<hasScheduler, nTest, saveText, numRuns, store, ckpt,
                   calls, dumps, schedArg, lastTest>>
    /\ UNCHANGED built
    /\ UNCHANGED <<mainVars, batchVars, resVars, ordVars, memoVars>>

\* _train after the validation loop: vloss = vloss / len(valid), and the
\* scheduler, when there is one, is stepped with it
ValidationEnd ==
    /\ mpc = "endvalid"
    /\ mVloss' = SchedulerArg(mVloss, nValid)
    /\ IF hasScheduler
       THEN /\ schedArg' = [epoch |-> mEpoch, value |-> mVloss',
                            set |-> TRUE]
            /\ trace' = Append(trace, "sched")
       ELSE UNCHANGED <<schedArg, trace>>
    /\ mpc' = "decide"
    /\ UNCHANGED <<hasScheduler, nTest, saveText, numRuns, modelResult,
                   hasModel, hasCos, store, ckpt, mEpoch, mBatch, mLossMin,
                   calls, dumps, lastOps, lastTest, atCall>>
    /\ UNCHANGED built
    /\ UNCHANGED <<mainVars, batchVars, resVars, ordVars, memoVars>>

\* _train, the rest of the epoch: the executor is saved when the average
\* validation loss went below valid_loss_min; with no update path the poll
\* returns -1 and the epoch is incremented
EpochClose ==
    /\ mpc = "decide"
    /\ LET results == modelResult.validation.results
           valid_loss == AveLoss(results[Len(results)])
           decreased == valid_loss < mLossMin
       IN /\ ckpt' = IF decreased THEN ckpt + 1 ELSE ckpt
          /\ mLossMin' = IF decreased THEN valid_loss ELSE mLossMin
    /\ trace' = Append(trace, "decide")
    /\ mEpoch' = mEpoch + 1
    /\ mpc' = "loop"
    /\ UNCHANGED <<hasScheduler, nTest, saveText, numRuns, modelResult,
                   hasModel, hasCos, store, mBatch, mVloss, calls, dumps,
                   lastOps, schedArg, lastTest, atCall>>
    /\ UNCHANGED built
    /\ UNCHANGED <<mainVars, batchVars, resVars, ordVars, memoVars>>

\* test() that loads the last persisted ModelResult in every case
TestModelResult_Load(mr, dir) == StashLoad(dir)

\* test(): if self.model_result is None:
\*             self.model_result = self.result_manager.load()
TestModelResult(mr, dir) == IF mr.none THEN StashLoad(dir) ELSE mr

\* test(): a missing model_result is loaded from the result manager
TestCall ==
    /\ mpc = "idle"
    /\ calls < MaxCalls
    /\ modelResult' = TestModelResult(modelResult, store)
    /\ atCall' = Call("test", "running")
    /\ calls' = calls + 1
    /\ lastTest' = NoLastTest
    /\ mpc' = "testbegin"
    /\ UNCHANGED <<hasScheduler, nTest, saveText, numRuns, hasModel, hasCos,
                   store, ckpt, mEpoch, mBatch, mVloss, mLossMin, dumps,
                   stepVars, lastTest>>
    /\ UNCHANGED built
    /\ UNCHANGED <<mainVars, batchVars, resVars, ordVars, memoVars>>

\* the EpochResult of _test
TestEpochResult == SplitEpochResult(0, "test")

\* ModelResult.reset that keeps the DatasetResult
TestReset_Keep(mr) == mr

\* _test: self.model_result.reset(ModelResult.TEST_DS_NAME)
TestReset(mr) == MrReset(mr, "test")

\* _execute up to the call of _test, where the lists are cached, and
\* _test up to its loop: the optimizer triple is made from the model, and
\* a missing model raises ValueError; a model_result still missing is
\* created, its test result is replaced by a new one, started, and given
\* the EpochResult of the test.  start() raises ValueError on a
\* DatasetResult with results.
TestBegin ==
    /\ mpc = "testbegin"
    /\ hasCos' = IF hasModel THEN TRUE ELSE hasCos
    /\ LET created == modelResult.none
           made == IF created THEN CreateModelResult(numRuns)
                   ELSE modelResult
           fresh == TestReset(made)
           started == [fresh EXCEPT !.test = DsStart(@)]
       IN CASE ~hasModel ->
                 /\ mpc' = "idle"
                 /\ atCall' = [atCall EXCEPT !.done = "raised"]
                 /\ UNCHANGED <<modelResult, numRuns>>
            [] SplitLen(fresh.test) > 0 ->
                 /\ mpc' = "idle"
                 /\ atCall' = [atCall EXCEPT !.done = "raised"]
                 /\ modelResult' = fresh
                 /\ numRuns' = IF created THEN NextRuns(numRuns) ELSE numRuns
            [] OTHER ->
                 /\ mpc' = "test"
                 /\ modelResult' =
                       [started EXCEPT !.test = DsAppend(@, TestEpochResult)]
                 /\ numRuns' = IF created THEN NextRuns(numRuns) ELSE numRuns
                 /\ UNCHANGED atCall
    /\ mBatch' = 0
    /\ lastOps' = <<>>
    /\ trace' = <<>>
    /\ UNCHANGED <<hasScheduler, nTest, saveText, hasModel, store, ckpt,
                   mEpoch, mVloss, mLossMin, calls, dumps, schedArg,
                   lastTest>>
    /\ built' = IF hasModel /\ modelResult.none
                THEN [index |-> modelResult'.index, reset |-> FALSE]
                ELSE built
    /\ cachedBatches' = CachedAfter("test")
    /\ UNCHANGED <<mainVars, resVars, phaseRest, ordVars, memoVars>>

\* _test after its loop: the test result is ended and test() returns
TestEnd ==
    /\ mpc = "testend"
    /\ modelResult' = [modelResult EXCEPT !.test = DsEnd(@)]
    /\ mpc' = "idle"
    /\ atCall' = [atCall EXCEPT !.done = "returned"]
    /\ LocalsGone
    /\ UNCHANGED <<hasScheduler, nTest, saveText, numRuns, hasModel, hasCos,
                   store, ckpt, calls, dumps, stepVars, lastTest>>
    /\ UNCHANGED built
    /\ UNCHANGED <<mainVars, batchVars, resVars, ordVars, memoVars>>

\* reset(): the optimizer triple is cleared and the model deallocated
ResetCall ==
    /\ mpc = "idle"
    /\ hasModel' = ResetModelExists
    /\ hasCos' = ResetCosExists
    /\ atCall' = Call("reset", "returned")
    /\ UNCHANGED <<hasScheduler, nTest, saveText, numRuns, modelResult,
                   store, ckpt, mpc, mEpoch, mBatch, mVloss, mLossMin,
                   calls, dumps, stepVars, lastTest>>
    /\ UNCHANGED built
    /\ UNCHANGED <<mainVars, batchVars, resVars, ordVars, memoVars>>

\* load_executor(): a new executor on the same directories, in the same
\* process, with the model of the checkpoint and no model_result
LoadExecutor ==
    /\ mpc = "idle"
    /\ ckpt > 0
    /\ modelResult' = NoModelResult
    /\ hasModel' = TRUE
    /\ hasCos' = FALSE
    /\ atCall' = Call("load_executor", "returned")
    /\ UNCHANGED <<hasScheduler, nTest, saveText, numRuns, store, ckpt, mpc,
                   mEpoch, mBatch, mVloss, mLossMin, calls, dumps, stepVars,
                   lastTest>>
    /\ UNCHANGED built
    /\ cachedBatches' = NoCachedBatches
    /\ UNCHANGED <<mainVars, resVars, phaseRest, ordVars, memoVars>>

\* ModelResult.reset_runs(): _runs = 0
ResetRuns ==
    /\ mpc = "idle"
    /\ numRuns > 0
    /\ numRuns' = 0
    /\ built' = [built EXCEPT !.reset = TRUE]
    /\ atCall' = Call("reset_runs", "returned")
    /\ UNCHANGED <<hasScheduler, nTest, saveText, modelResult, hasModel,
                   hasCos, store, ckpt, mpc, mEpoch, mBatch, mVloss,
                   mLossMin, calls, dumps, stepVars, lastTest>>
    /\ UNCHANGED <<mainVars, batchVars, resVars, ordVars, memoVars>>

\* a caller reads model_result.last_test_dataset_result
ReadLastTest ==
    /\ mpc = "idle"
    /\ ~modelResult.none
    /\ lastTest' = [name |-> LastTestDatasetResultName(modelResult),
                    test |-> SplitLen(modelResult.test),
                    validation |-> SplitLen(modelResult.validation)]
    /\ UNCHANGED <<hasScheduler, nTest, saveText, numRuns, modelResult,
                   hasModel, hasCos, store, ckpt, mpc, mEpoch, mBatch,
                   mVloss, mLossMin, calls, dumps, stepVars, atCall>>
    /\ UNCHANGED built
    /\ UNCHANGED <<mainVars, batchVars, resVars, ordVars, memoVars>>

\* the ModelResult an earlier process left in the directory of the result
\* manager, next to its checkpoint: one epoch of one training and one
\* validation step
PersistedResult ==
    [none |-> FALSE, index |-> 1,
     train |-> [results |-> <<RecordStep(SplitEpochResult(0, "train"),
                                         Scale, 1)>>,
                start_time |-> "set", end_time |-> "set",
                starts |-> <<0>>, ends |-> <<1>>],
     validation |-> [NewDatasetResult EXCEPT
                        !.results = <<RecordStep(
                            SplitEpochResult(0, "validation"), Scale, 1)>>],
     test |-> NewDatasetResult]

ModelInit ==
    /\ hasPath = FALSE
    /\ debug \in BOOLEAN
    /\ nEpochs \in 0..MaxEpochs
    /\ nTrain \in 1..MaxBatches
    /\ nValid \in 1..MaxBatches
    /\ ExecStart
    /\ batchIteration = "gpu"
    /\ cacheBatches = TRUE
    /\ batchLimit = 1
    /\ PhaseStart
    /\ ResultStart
    /\ hasScheduler \in BOOLEAN
    /\ nTest \in 1..MaxBatches
    /\ saveText = TRUE
    /\ numRuns = 0
    /\ modelResult = NoModelResult
    /\ hasModel = FALSE
    /\ hasCos = FALSE
    /\ \E earlier \in BOOLEAN :
          /\ store = IF earlier THEN StashDump({}, PersistedResult, 1)
                     ELSE {}
          /\ ckpt = IF earlier THEN 1 ELSE 0
    /\ mpc = "idle"
    /\ mEpoch = 0
    /\ mBatch = 0
    /\ mVloss = 0
    /\ mLossMin = Inf
    /\ calls = 0
    /\ dumps = 0
    /\ lastOps = <<>>
    /\ trace = <<>>
    /\ schedArg = NoSchedArg
    /\ lastTest = NoLastTest
    /\ atCall = NoCall
    /\ built = NoneBuilt
    /\ OrderFixed
    /\ MemoFixed

ModelNext ==
    \/ TrainCall
    \/ TrainBegin
    \/ EpochLoop
    \/ StepBatch
    \/ ValidationEnd
    \/ EpochClose
    \/ TestCall
    \/ TestBegin
    \/ TestEnd
    \/ ResetCall
    \/ ResetRuns
    \/ LoadExecutor
    \/ ReadLastTest

ModelSpec == ModelInit /\ [][ModelNext]_vars

\* ----------------------------------------------- last test results
\* C21: last_test_dataset_result read on a ModelResult gives the test
\* DatasetResult whenever that has results, otherwise the validation
\* DatasetResult when that has results, raises NoResults when neither has
\* results, and never gives the train DatasetResult.
C21_LastTestPrefersTest ==
    lastTest.name # "none" =>
        /\ lastTest.test > 0 => lastTest.name = "test"
        /\ (lastTest.test = 0 /\ lastTest.validation > 0) =>
               lastTest.name = "validation"
        /\ (lastTest.test = 0 /\ lastTest.validation = 0) =>
               lastTest.name = "NoResults"
        /\ lastTest.name # "train"

\* the property is read while the test and the validation DatasetResult
\* both have results
C21_Witness ==
    /\ lastTest.name = "test"
    /\ lastTest.test > 0
    /\ lastTest.validation > 0

\* --------------------------------------------------- run counter
\* a step that constructs a ModelResult: train(), or _test() on an
\* executor whose model_result is still missing
Constructs ==
    \/ mpc = "idle" /\ mpc' = "begin"
    \/ mpc = "testbegin" /\ hasModel /\ modelResult.none

\* C22 as stated: every call to train() installs a newly constructed
\* ModelResult whose three DatasetResults are empty, every construction
\* increments the run counter by exactly one, and the index of a
\* constructed ModelResult is above that of the one constructed before.
C22_Original ==
    [][Constructs =>
          /\ numRuns' = numRuns + 1
          /\ modelResult'.index = numRuns'
          /\ (mpc' = "begin" =>
                 /\ modelResult'.train = NewDatasetResult
                 /\ modelResult'.validation = NewDatasetResult
                 /\ modelResult'.test = NewDatasetResult)
          /\ modelResult'.index > built.index]_vars

\* C22: every call to train() installs a newly constructed ModelResult
\* whose three DatasetResults are empty, every construction increments
\* the run counter by exactly one and takes the incremented value as index,
\* and with no reset_runs() since the construction before, the index is
\* above that of the ModelResult constructed before.
C22_FreshResultPerTrain ==
    [][Constructs =>
          /\ numRuns' = numRuns + 1
          /\ modelResult'.index = numRuns'
          /\ (mpc' = "begin" =>
                 /\ modelResult'.train = NewDatasetResult
                 /\ modelResult'.validation = NewDatasetResult
                 /\ modelResult'.test = NewDatasetResult)
          /\ (~built.reset => modelResult'.index > built.index)]_vars

\* a second train() has installed its ModelResult, with no reset_runs()
\* since the first
C22_Witness ==
    /\ mpc = "begin"
    /\ built.index = 2
    /\ modelResult.index = 2
    /\ modelResult.train = NewDatasetResult

\* ------------------------------------------------ test() and results
\* a step of test(): the call itself, or a step of _test
TestStep ==
    \/ mpc = "idle" /\ mpc' = "testbegin"
    \/ mpc \in {"testbegin", "test", "testend"}

\* C23: test() keeps the ModelResult the executor has, and only when it
\* has none takes the one persisted under the highest key of the result
\* manager; no step of test() replaces a ModelResult that is there, and
\* none writes to the checkpoint or to the directory of the results.
C23_TestReusesResult ==
    [][TestStep =>
          /\ (mpc = "idle" /\ ~modelResult.none) =>
                 modelResult' = modelResult
          /\ (mpc = "idle" /\ modelResult.none) =>
                 \/ /\ StoreKeys(store) = {}
                    /\ modelResult'.none
                 \/ \E f \in store :
                       /\ f.ext = "dat"
                       /\ \A k \in StoreKeys(store) : k <= f.key
                       /\ modelResult' = f.result
          /\ ~modelResult.none =>
                 /\ ~modelResult'.none
                 /\ modelResult'.index = modelResult.index
          /\ store' = store
          /\ ckpt' = ckpt]_vars

\* test() on a loaded executor without a ModelResult has taken the
\* persisted one and has ended its test on it
C23_Witness ==
    /\ atCall = Call("test", "returned")
    /\ store # {}
    /\ modelResult.index = PersistedResult.index
    /\ modelResult.train = PersistedResult.train
    /\ Len(modelResult.test.results) = 1
    /\ built = NoneBuilt

\* C24: whenever test() has returned, the test DatasetResult holds exactly
\* one EpochResult, of split type test and index 0, appended after the one
\* start() and before the one end() of that DatasetResult; and no step of
\* test() changes the train or the validation DatasetResult.
C24_OneTestEpoch ==
    /\ [](atCall = Call("test", "returned") =>
             /\ Len(modelResult.test.results) = 1
             /\ modelResult.test.results[1].split_type = "test"
             /\ modelResult.test.results[1].index = 0
             /\ modelResult.test.start_time = "set"
             /\ modelResult.test.end_time = "set"
             /\ modelResult.test.starts = <<0>>
             /\ modelResult.test.ends = <<1>>)
    /\ [][(TestStep /\ ~modelResult.none) =>
             /\ modelResult'.train = modelResult.train
             /\ modelResult'.validation = modelResult.validation]_vars

\* test() has returned as the second of two calls of test() on the same
\* ModelResult, which has validation results
C24_Witness ==
    /\ atCall = Call("test", "returned")
    /\ calls = 2
    /\ built = NoneBuilt
    /\ Len(modelResult.validation.results) = 1
    /\ SplitLen(modelResult.test) = nTest

\* ------------------------------------------------------------ reset()
\* a step in which reset() runs: a call of it, or the one _execute makes
\* when the phase function raised EarlyBail
ResetStep ==
    \/ /\ mpc = "idle"
       /\ mpc' = "idle"
       /\ atCall' = Call("reset", "returned")
       /\ lastTest' = lastTest
    \/ /\ mpc \in {"train", "validation", "test"}
       /\ atCall'.done = "bailed"

\* C25: after reset() the executor has no model and no criterion /
\* optimizer / scheduler triple, and its ModelResult and cached_batches,
\* like the run counter, the checkpoint and the directory of the results,
\* are what they were before.
C25_ResetFrame ==
    [][ResetStep =>
          /\ ~hasModel'
          /\ ~hasCos'
          /\ modelResult' = modelResult
          /\ cachedBatches' = cachedBatches
          /\ numRuns' = numRuns
          /\ ckpt' = ckpt
          /\ store' = store]_vars

\* reset() was called on an executor that has trained: the ModelResult
\* with its results and the cached lists are there, the model is not
C25_Witness ==
    /\ atCall = Call("reset", "returned")
    /\ ~hasModel
    /\ ~hasCos
    /\ ~modelResult.none
    /\ SplitLen(modelResult.train) > 0
    /\ cachedBatches["train"].kind = "lists"

\* ------------------------------------------------- start and end times
\* the DatasetResults that receive EpochResults in a call
Receiving(kind) ==
    IF kind = "train" THEN {"train", "validation"} ELSE {"test"}

\* C26 as stated: when train() or test() has returned, every DatasetResult
\* that received EpochResults in the call (train and validation, or test)
\* was started exactly once, before its first EpochResult was appended, and
\* ended exactly once, after its last one was appended.
C26_Original ==
    (/\ atCall.kind \in {"train", "test"}
     /\ atCall.done = "returned") =>
        \A name \in Receiving(atCall.kind) :
            Len(modelResult[name].results) > 0 =>
                /\ modelResult[name].starts = <<0>>
                /\ modelResult[name].ends =
                       <<Len(modelResult[name].results)>>

\* ------------------------------------------------- ModelResultManager
\* calls of ModelResultManager.dump
MaxDumps == 3

\* the ModelResults handed to dump
DumpedResults == {[PersistedResult EXCEPT !.index = i] : i \in 1..MaxDumps}

\* the variables of the executor the result manager leaves alone
storeRest == <<hasScheduler, nTest, numRuns, hasModel, hasCos, ckpt, mpc,
               mEpoch, mBatch, mVloss, mLossMin, calls, lastOps, trace,
               schedArg, lastTest, atCall, built>>

\* result_manager.dump(result)
StoreDump ==
    /\ dumps < MaxDumps
    /\ \E mr \in DumpedResults :
          store' = ManagerDump(store, mr, dumps + 1, saveText)
    /\ dumps' = dumps + 1
    /\ UNCHANGED <<saveText, modelResult, storeRest>>
    /\ UNCHANGED <<mainVars, batchVars, resVars, ordVars, memoVars>>

\* result_manager.load(): the caller keeps what it returns
StoreLoad ==
    /\ modelResult' = StashLoad(store)
    /\ UNCHANGED <<saveText, store, dumps, storeRest>>
    /\ UNCHANGED <<mainVars, batchVars, resVars, ordVars, memoVars>>

\* the owner of the manager assigns its save_text field
SetSaveText ==
    /\ saveText' \in BOOLEAN
    /\ UNCHANGED <<store, dumps, modelResult, storeRest>>
    /\ UNCHANGED <<mainVars, batchVars, resVars, ordVars, memoVars>>

StoreInit ==
    /\ ExecFixed
    /\ PhaseFixed
    /\ ResultStart
    /\ hasScheduler = FALSE
    /\ nTest = 1
    /\ saveText \in BOOLEAN
    /\ ModelFresh
    /\ OrderFixed
    /\ MemoFixed

StoreNext ==
    \/ StoreDump
    \/ StoreLoad
    \/ SetSaveText

StoreSpec == StoreInit /\ [][StoreNext]_vars

\* the files of the directory with extension ext
FilesOf(dir, ext) == {f \in dir : f.ext = ext}

\* C27: a dump writes the serialized result under the key one above the
\* highest key of the directory, 1 on an empty directory, which no file of
\* the directory has; it leaves every file that was there as it was; with
\* text output enabled it writes one text file, under that same key, and
\* without it none.  The serialized results of the directory so carry the
\* keys 1, 2, 3, ... in the order of their dumps.
C27_KeysIncrement ==
    /\ [][dumps' = dumps + 1 =>
            LET old == {f.key : f \in store}
                key == IF old = {} THEN 1
                       ELSE 1 + CHOOSE k \in old : \A j \in old : j <= k
                newDat == FilesOf(store', "dat") \ store
                newTxt == FilesOf(store', "txt") \ store
            IN /\ key \notin old
               /\ store \subseteq store'
               /\ \E f \in newDat : newDat = {f} /\ f.key = key
                                    /\ f.dump = dumps'
               /\ saveText => \E f \in newTxt : /\ newTxt = {f}
                                                /\ f.key = key
                                                /\ f.dump = dumps'
               /\ ~saveText => newTxt = {}]_vars
    /\ [](\A f \in FilesOf(store, "dat") : f.key = f.dump)
    /\ []({f.key : f \in FilesOf(store, "dat")} = 1..dumps)

\* three dumps were made, the second one without text output, the others
\* with it
C27_Witness ==
    /\ dumps = 3
    /\ {f.key : f \in FilesOf(store, "dat")} = {1, 2, 3}
    /\ {f.key : f \in FilesOf(store, "txt")} = {1, 3}

\* ------------------------------------------------- order within a step
\* the order the spec gives for the step of a training batch
TrainingOrder ==
    <<"zero_grad", "forward", "loss", "backward", "step", "decode", "append">>

\* the same without the three operations of training
EvaluationOrder == <<"forward", "loss", "decode", "append">>

\* a is a prefix of b
IsPrefix(a, b) == Len(a) <= Len(b) /\ SubSeq(b, 1, Len(a)) = a

\* the split of the step made last, when no later statement of the epoch
\* was recorded after it
LastStepSplit ==
    IF trace # <<>> /\ trace[Len(trace)] \in {"train", "validation", "test"}
    THEN trace[Len(trace)]
    ELSE "none"

\* where a call is after a step that returned
AfterStep == {"train", "validation", "endvalid", "test", "testend"}

\* C28: the step of a training batch that returns has done zero-grad,
\* forward, loss, backward, optimizer step, decode and the append to the
\* EpochResult, in this order and nothing else, and one that raises has done
\* the first of them up to the statement that raised; the step of a
\* validation or test batch does the same without zero-grad, backward and
\* optimizer step, which never occur in it.
C28_StepOrder ==
    /\ LastStepSplit = "train" =>
           /\ IsPrefix(lastOps, TrainingOrder)
           /\ lastOps[Len(lastOps)] = "append" => lastOps = TrainingOrder
           /\ mpc \in AfterStep => lastOps = TrainingOrder
    /\ LastStepSplit \in {"validation", "test"} =>
           /\ IsPrefix(lastOps, EvaluationOrder)
           /\ \A i \in 1..Len(lastOps) :
                  lastOps[i] \notin {"zero_grad", "backward", "step"}
           /\ mpc \in AfterStep => lastOps = EvaluationOrder

\* the step of a training batch has returned and the step of a validation
\* batch after it too
C28_Witness ==
    /\ mpc = "endvalid"
    /\ LastStepSplit = "validation"
    /\ lastOps = EvaluationOrder
    /\ "train" \in {trace[i] : i \in 1..Len(trace)}

\* ---------------------------------------------------------- scheduler
\* the steps of one epoch: those of the training batches, then those of
\* the validation batches
EpochSteps ==
    [i \in 1..(nTrain + nValid) |->
        IF i <= nTrain THEN "train" ELSE "validation"]

\* the number of times scheduler.step was called in the running epoch
SchedulerSteps == Cardinality({i \in 1..Len(trace) : trace[i] = "sched"})

\* the validation EpochResult of the running epoch
ValidEpochResult ==
    modelResult.validation.results[Len(modelResult.validation.results)]

C31_StepRelease ==
    [][xpc = "run" =>
          LET d == ToDevice(CurrentBatch, phases)
              policy == \/ batchIteration = "cpu" /\ ~cacheBatches
                        \/ batchIteration = "buffered"
          IN /\ (releasedNow' \ releasedNow) \subseteq {d}
             /\ policy => (d \in releasedNow' /\ d \notin devMem')
             /\ ~policy => /\ releasedNow' = releasedNow
                           /\ ~CurrentBatch.dev => d \in devMem'
                           /\ devMem \subseteq devMem']_vars

\* a step that raised an exception other than EarlyBail under the buffered
\* policy has released its batch
C31_Witness ==
    /\ xpc = "exit"
    /\ pending = "raised"
    /\ batchIteration = "buffered"
    /\ \E b \in releasedNow : b.dev /\ b.ph = phases

\* ------------------------------------------------- order of batches
\* _preproces_training: rand.shuffle(ds_train) when shuffle_training is
\* set; every permutation of the list is a possible outcome
Shuffled(l, on) ==
    IF on
    THEN {p \in [1..Len(l) -> Elems(l)] : \A x \in Elems(l) :
                                              \E i \in 1..Len(l) : p[i] = x}
    ELSE {l}

\* a split as its source yields it to islice(src.values(), limit): the
\* batches by their number in the source
Yielded(limit) == [i \in 1..Min(limit, MaxSplit) |-> i]

\* _prepare_datasets without _preproces_training: a list per split for gpu
\* and cpu, the sources themselves for buffered
OrderedLists(biter, name, limit) ==
    [k \in 1..Len(SplitsOf(name)) |->
        IF biter = "buffered" THEN Yielded(MaxSplit) ELSE Yielded(limit)]

\* train() or test() calls _execute with its sets_name
OrderEnter ==
    /\ opc \in {"idle", "done"}
    /\ \E name \in SetsNames : oName' = name
    /\ opc' = "prepare"
    /\ oLists' = <<>>
    /\ oList' = 0
    /\ oPos' = 0
    /\ processed' = NoneProcessed
    /\ oExit' = "none"
    /\ UNCHANGED shuffleTraining
    /\ UNCHANGED <<mainVars, batchVars, resVars, modVars, memoVars>>

\* _prepare_datasets: the lists are made and _preproces_training is called
\* on the first of them, whatever the phase.  For buffered the first of
\* them is the source itself, which is no list: rand.shuffle on it raises
\* or leaves the order of the source as it is.
OrderPrepare ==
    /\ opc = "prepare"
    /\ LET lists == OrderedLists(batchIteration, oName, batchLimit)
       IN \/ /\ batchIteration = "buffered" => ~shuffleTraining
             /\ \E first \in Shuffled(lists[1], shuffleTraining) :
                   oLists' = [lists EXCEPT ![1] = first]
             /\ opc' = "run"
             /\ oList' = 1
             /\ oPos' = 1
             /\ UNCHANGED oExit
          \/ /\ batchIteration = "buffered"
             /\ shuffleTraining
             /\ \/ /\ oLists' = lists
                   /\ opc' = "run"
                   /\ oList' = 1
                   /\ oPos' = 1
                   /\ UNCHANGED oExit
                \/ /\ opc' = "done"
                   /\ oExit' = "raised"
                   /\ UNCHANGED <<oLists, oList, oPos>>
    /\ UNCHANGED <<shuffleTraining, oName, processed>>
    /\ UNCHANGED <<mainVars, batchVars, resVars, modVars, memoVars>>

\* the loop of the phase function steps on the next batch of its list
OrderStep ==
    /\ opc = "run"
    /\ LET split == SplitsOf(oName)[oList]
       IN processed' = [processed EXCEPT
                           ![split] = Append(@, oLists[oList][oPos])]
    /\ IF oPos < Len(oLists[oList])
       THEN /\ oPos' = oPos + 1
            /\ UNCHANGED <<oList, opc, oExit>>
       ELSE IF oList < Len(oLists)
            THEN /\ oList' = oList + 1
                 /\ oPos' = 1
                 /\ UNCHANGED <<opc, oExit>>
            ELSE /\ opc' = "done"
                 /\ oExit' = "completed"
                 /\ UNCHANGED <<oList, oPos>>
    /\ UNCHANGED <<shuffleTraining, oName, oLists>>
    /\ UNCHANGED <<mainVars, batchVars, resVars, modVars, memoVars>>

OrderInit ==
    /\ ExecFixed
    /\ batchIteration \in {"gpu", "cpu", "buffered"}
    /\ cacheBatches = FALSE
    /\ batchLimit \in 1..MaxSplit
    /\ PhaseStart
    /\ ResultStart
    /\ ModelFixed
    /\ MemoFixed
    /\ shuffleTraining \in BOOLEAN
    /\ opc = "idle"
    /\ oName = "train"
    /\ oLists = <<>>
    /\ oList = 0
    /\ oPos = 0
    /\ processed = NoneProcessed
    /\ oExit = "none"

OrderNext ==
    \/ OrderEnter
    \/ OrderPrepare
    \/ OrderStep

OrderSpec == OrderInit /\ [][OrderNext]_vars

\* C32 as stated, for the loops that shuffle_training is not about: the
\* validation and the test batches are stepped on in the order in which
\* the source of the split yields them, whatever shuffle_training is.
C32_Original ==
    \A sp \in {"valid", "test"} :
        \A j \in 1..Len(processed[sp]) : processed[sp][j] = j

\* ------------------------------------ the poll and LifeCycleManager
\* C33 as stated: for every state of the update file, the epoch the loop
\* goes on with after its poll is the epoch LifeCycleManager.get_status
\* returns when it is at the same epoch and reads the same file.
C33_Original ==
    AfterPoll =>
        epoch = LcGetStatus(epochAtPoll,
                            LcReadStatus(hasPath, polled)).status.epoch

\* ------------------------------------------- stop requests of a run
\* C34 as stated: a file that stop() created after train() was entered is
\* removed only by the poll that read it as STOP; no other step of the run,
\* the cleanup at training start included, removes it.
C34_Original ==
    [][(Exists(file) /\ file.byStop /\ ~file.stale /\ ~Exists(file')) =>
          /\ pc = "unlink"
          /\ polled.byStop
          /\ stopSeen.seen]_vars

\* -------------------------------------------- termination of train()
\* C35: a training run during which the update file is written finitely
\* often, with any contents, ends: from the start of _train the loop
\* eventually exits (by its test, by a stop, or by an exception of a step)
\* and train() returns.  Every record is read by one poll only, so each
\* write lets at most n further epochs start.
C35_Terminates ==
    /\ [](Len(trainRes) <= nEpochs * (1 + writes))
    /\ ((pc # "idle") ~> (pc = "idle"))

\* C35 witness: the writer's record moved the loop back to an epoch already
\* run, which ran again, and train() has returned
C35_Witness ==
    /\ pc = "idle"
    /\ outcome = "completed"
    /\ writes = MaxWrites
    /\ Len(trainRes) > nEpochs

\* ------------------------------------- epoch indices of one train()
\* C36 as stated: the epoch indices of the train DatasetResult are strictly
\* increasing and lie in 0..n-1, so at most n EpochResults are appended.
C36_Original ==
    /\ \A i \in 1..Len(trainRes) : trainRes[i].index \in 0..(nEpochs - 1)
    /\ \A i, j \in 1..Len(trainRes) :
          i < j => trainRes[i].index < trainRes[j].index
    /\ Len(trainRes) <= nEpochs

\* the poll before this iteration read a record whose epoch value is
\* applied and does not exceed the epoch just finished
MovedBack == epochVal \in 1..epochAtPoll

\* C36: the epoch indices of the train DatasetResult lie in 0..n-1, the
\* first is 0, and each later one exceeds the one before it exactly when
\* the poll between them did not read a record with an epoch E with
\* 0 < E <= the epoch just finished; after such a record the next index is E.
C36_EpochIndices ==
    /\ [](\A i \in 1..Len(trainRes) :
              trainRes[i].index \in 0..(nEpochs - 1))
    /\ [](Len(trainRes) > 0 => trainRes[1].index = 0)
    /\ [][(Len(trainRes') = Len(trainRes) + 1 /\ Len(trainRes) > 0) =>
            LET last == trainRes[Len(trainRes)].index
                new == trainRes'[Len(trainRes')].index
            IN /\ (new > last) <=> ~MovedBack
               /\ MovedBack => new = epochVal]_vars

\* C36 witness: with a cap of 2 the record {"epoch": 1} was read at the end
\* of epoch 1, and epoch 1 ran a second time
C36_Witness ==
    /\ Len(trainRes) = 3
    /\ trainRes[2].index = 1
    /\ trainRes[3].index = 1
    /\ polled.kind = "epochInt"
    /\ polled.v = 1
    /\ epochAtPoll = 1

\* --------------------------------- kept values of derived properties
\* @persisted: the value the property computed is kept; an exception is
\* raised to the caller and nothing is kept
Persisted(m, prop, res) ==
    IF res.kind = "value"
    THEN [m EXCEPT ![prop] = [set |-> TRUE, res |-> res]]
    ELSE m

\* a read of a persisted property of the DatasetResult: the kept value when
\* there is one, else the property is computed and kept.  convergence reads
\* self.losses, itself a persisted property.
ReadPersisted(m, ds, prop) ==
    IF m[prop].set THEN [res |-> m[prop].res, memo |-> m]
    ELSE IF prop = "convergence"
    THEN LET l == IF m["losses"].set THEN m["losses"].res
                  ELSE DatasetGetLosses(ds)
             m1 == Persisted(m, "losses", l)
             r == IF l.kind # "value" THEN l ELSE IndexOfMin(l.val)
         IN [res |-> r, memo |-> Persisted(m1, prop, r)]
    ELSE LET r == ReadDataset(ds, prop)
         IN [res |-> r, memo |-> Persisted(m, prop, r)]

\* DatasetResult.append: the EpochResult is added and _data_updated voids
\* the kept values of the DatasetResult
MemoAppend ==
    /\ Len(dsResults) < MaxResEpochs
    /\ dsResults' = Append(dsResults, NewEpochResult(Len(dsResults)))
    /\ memo' = NoMemo
    /\ UNCHANGED <<vloss, lastRead, updFailed, mRead>>
    /\ UNCHANGED <<mainVars, batchVars, modVars, ordVars>>

\* EpochResult.update on the EpochResult of the running epoch: its last
\* statement is self._data_updated(), on the EpochResult
MemoUpdate ==
    /\ dsResults # <<>>
    /\ Len(LastEpoch.loss_updates) < MaxUpdates
    /\ \E size \in 1..MaxBatchSize, loss \in LossValues :
          LET batch == ResBatch(Len(LastEpoch.loss_updates), size)
          IN dsResults' = [dsResults EXCEPT ![Len(dsResults)] =
                              Update(@, batch, loss, "none")]
    /\ UNCHANGED <<vloss, lastRead, updFailed, memoVars>>
    /\ UNCHANGED <<mainVars, batchVars, modVars, ordVars>>

\* a caller reads a persisted property of the DatasetResult
MemoRead ==
    /\ \E prop \in MemoProps :
          LET r == ReadPersisted(memo, dsResults, prop)
          IN /\ memo' = r.memo
             /\ mRead' = [prop |-> prop, res |-> r.res,
                          computed |-> ReadDataset(dsResults, prop)]
    /\ UNCHANGED resVars
    /\ UNCHANGED <<mainVars, batchVars, modVars, ordVars>>

MemoInit ==
    /\ ExecFixed
    /\ PhaseFixed
    /\ ResultStart
    /\ ModelFixed
    /\ OrderFixed
    /\ MemoFixed

MemoNext ==
    \/ MemoAppend
    \/ MemoUpdate
    \/ MemoRead

MemoSpec == MemoInit /\ [][MemoNext]_vars

\* C37 as stated: a derived value read from the DatasetResult equals the
\* value computed from the contents its EpochResults have at the read.
C37_Original ==
    /\ mRead.res.kind = mRead.computed.kind
    /\ mRead.res.kind = "value" => mRead.res.val = mRead.computed.val

\* ------------------------------------- train() and the settings test
\* _execute raises ValueError before the phase function is called: the test
\* of cache_batches with buffered, or, with no lists cached for the name,
\* the last branch of _prepare_datasets on an unknown batch_iteration
RaisesConfig(cb, biter, cache, name) ==
    \/ ConfigError(cb, biter)
    \/ cache[name].kind = "none" /\ biter \notin {"gpu", "cpu", "buffered"}

\* what a train() that returns leaves in the ModelResult, here for one epoch
\* of one batch per split
TrainedResult(mr) ==
    [mr EXCEPT
       !.train = DsEnd(DsAppend(DsStart(@),
                    RecordStep(SplitEpochResult(0, "train"), 1, 1))),
       !.validation = DsAppend(@,
                    RecordStep(SplitEpochResult(0, "validation"), 1, 1))]

\* train() as one call: the new ModelResult is assigned, then _execute
\* tests the settings and either raises or caches the lists and runs _train
ConfigTrain ==
    /\ mpc = "idle"
    /\ calls < MaxCalls
    /\ calls' = calls + 1
    /\ numRuns' = NextRuns(numRuns)
    /\ built' = [index |-> NextRuns(numRuns), reset |-> FALSE]
    /\ IF RaisesConfig(cacheBatches, batchIteration, cachedBatches, "train")
       THEN /\ modelResult' = CreateModelResult(numRuns)
            /\ atCall' = Call("train", "config")
            /\ UNCHANGED <<hasModel, hasCos, cachedBatches>>
       ELSE /\ modelResult' = TrainedResult(CreateModelResult(numRuns))
            /\ atCall' = Call("train", "returned")
            /\ hasModel' = TRUE
            /\ hasCos' = TRUE
            /\ cachedBatches' = CachedAfter("train")
    /\ UNCHANGED <<hasScheduler, nTest, saveText, store, ckpt, mpc, mEpoch,
                   mBatch, mVloss, mLossMin, dumps, lastTest, stepVars>>
    /\ UNCHANGED <<mainVars, resVars, phaseRest, ordVars, memoVars>>

\* the owner of the model settings changes the policy between two calls
ConfigChange ==
    /\ mpc = "idle"
    /\ \E bi \in BatchIterations, cb \in BOOLEAN :
         /\ <<bi, cb>> # <<batchIteration, cacheBatches>>
         /\ batchIteration' = bi
         /\ cacheBatches' = cb
    /\ atCall' = NoCall
    /\ UNCHANGED <<hasScheduler, nTest, saveText, numRuns, modelResult,
                   hasModel, hasCos, store, ckpt, mpc, mEpoch, mBatch,
                   mVloss, mLossMin, calls, dumps, lastTest, built,
                   stepVars>>
    /\ UNCHANGED <<batchLimit, cachedBatches, xpc, setsName, dsDst,
                   toDeallocate, prepIdx, runList, runPos, pending, devMem,
                   phases, changes, exitKind, usedCache, drawn, relocated,
                   acquiredNow, releasedNow, cacheAtEnter, deallocated>>
    /\ UNCHANGED <<mainVars, resVars, ordVars, memoVars>>

ConfigInit ==
    /\ ExecFixed
    /\ batchIteration \in BatchIterations
    /\ cacheBatches \in BOOLEAN
    /\ batchLimit = 1
    /\ PhaseStart
    /\ ResultStart
    /\ ModelFixed
    /\ OrderFixed
    /\ MemoFixed

ConfigNext ==
    \/ ConfigTrain
    \/ ConfigChange

ConfigSpec == ConfigInit /\ [][ConfigNext]_vars

\* C38 as stated: a train() that fails with the configuration error leaves
\* the ModelResult held, the model, the cached-batch map and the run
\* counter as they were before the call.
C38_Original ==
    [][(calls' = calls + 1 /\ atCall'.done = "config") =>
          /\ modelResult' = modelResult
          /\ hasModel' = hasModel
          /\ cachedBatches' = cachedBatches
          /\ numRuns' = numRuns]_vars

====
